---- MODULE Spec2Model ----
(***************************************************************************)
(* Model of the deterministic correlation core of frogo: the timeline      *)
(* clusterer (src/core/timeline.ts), the rule-based pattern matcher        *)
(* (src/core/pattern-engine.ts) and the correlator                         *)
(* (src/core/correlator.ts).                                               *)
(*                                                                         *)
(* Conventions                                                             *)
(*  - A NormalizedEvent is a record; its object identity (the code uses    *)
(*    `candidate !== event`) is the field id, the position of the object   *)
(*    in the input array.                                                  *)
(*  - A timestamp is Date.getTime(), in milliseconds.                      *)
(*  - A metadata value is a tagged JavaScript value: Undefined (the key is *)
(*    absent), Bool(b), Num(n) or Str(s).                                  *)
(*  - A string is looked at through StringChars, its characters.           *)
(*  - A confidence is kept in hundredths (0.87 is 87).                     *)
(*  - null is Null; a TypeError raised inside a call is Thrown.            *)
(*  - now is the wall clock (Date.now()), which moves between calls.       *)
(*  - shuffled is a second array holding the objects of events in another  *)
(*    order.                                                               *)
(***************************************************************************)
EXTENDS Integers, Sequences, FiniteSets, TLC

VARIABLES events, pc, clusters, picked, match, report, again, shuffled, now,
          query, kept, feeds, adapters, flattened, logged, normalized, settled, calls

\* The state of a call of filterEventsByQuery: its query and its result.
filterVars == <<query, kept>>

\* The state of runInvestigation: what each connector would deliver, the
\* promises of the connectors, the merged feed, the errors logged, the
\* events each connector had normalized before it applied the query, the
\* connectors in the order their promises settled, and the number of calls
\* of correlateEvents made.
scanVars == <<feeds, adapters, flattened, logged, normalized, settled, calls>>

vars == <<events, pc, clusters, picked, match, report, again, shuffled, now, filterVars, scanVars>>

(***************************************************************************)
(* Strings                                                                 *)
(***************************************************************************)
\* The characters of the strings the model reads character by character:
\* the event types, the words the rules look for, and string status codes.
StringChars(s) ==
    CASE s = "http.request" -> <<"h", "t", "t", "p", ".", "r", "e", "q", "u", "e", "s", "t">>
      [] s = "lambda.timeout" -> <<"l", "a", "m", "b", "d", "a", ".", "t", "i", "m", "e", "o", "u", "t">>
      [] s = "Lambda.TIMEOUT" -> <<"L", "a", "m", "b", "d", "a", ".", "T", "I", "M", "E", "O", "U", "T">>
      [] s = "job.retry" -> <<"j", "o", "b", ".", "r", "e", "t", "r", "y">>
      [] s = "queue.retry" -> <<"q", "u", "e", "u", "e", ".", "r", "e", "t", "r", "y">>
      [] s = "process.restart" -> <<"p", "r", "o", "c", "e", "s", "s", ".", "r", "e", "s", "t", "a", "r", "t">>
      [] s = "Duplicate Execution" -> <<"D", "u", "p", "l", "i", "c", "a", "t", "e", " ", "E", "x", "e", "c", "u", "t", "i", "o", "n">>
      [] s = "deploy.started" -> <<"d", "e", "p", "l", "o", "y", ".", "s", "t", "a", "r", "t", "e", "d">>
      [] s = "Deploy.Failed" -> <<"D", "e", "p", "l", "o", "y", ".", "F", "a", "i", "l", "e", "d">>
      [] s = "deploy.restart" -> <<"d", "e", "p", "l", "o", "y", ".", "r", "e", "s", "t", "a", "r", "t">>
      [] s = "timeout" -> <<"t", "i", "m", "e", "o", "u", "t">>
      [] s = "retry" -> <<"r", "e", "t", "r", "y">>
      [] s = "restart" -> <<"r", "e", "s", "t", "a", "r", "t">>
      [] s = "duplicate execution" -> <<"d", "u", "p", "l", "i", "c", "a", "t", "e", " ", "e", "x", "e", "c", "u", "t", "i", "o", "n">>
      [] s = "deploy" -> <<"d", "e", "p", "l", "o", "y">>
      [] s = "429" -> <<"4", "2", "9">>
      [] s = "local" -> <<"l", "o", "c", "a", "l">>
      [] s = "trigger" -> <<"t", "r", "i", "g", "g", "e", "r">>
      [] s = "datadog" -> <<"d", "a", "t", "a", "d", "o", "g">>
      [] s = "info" -> <<"i", "n", "f", "o">>
      [] s = "warn" -> <<"w", "a", "r", "n">>
      [] s = "error" -> <<"e", "r", "r", "o", "r">>
      [] s = "status" -> <<"s", "t", "a", "t", "u", "s">>
      [] s = "statusCode" -> <<"s", "t", "a", "t", "u", "s", "C", "o", "d", "e">>
      [] s = "jobName" -> <<"j", "o", "b", "N", "a", "m", "e">>
      [] s = "billing-sync" -> <<"b", "i", "l", "l", "i", "n", "g", "-", "s", "y", "n", "c">>
      [] s = "constructor" -> <<"c", "o", "n", "s", "t", "r", "u", "c", "t", "o", "r">>
      [] s = "unknown" -> <<"u", "n", "k", "n", "o", "w", "n">>
      [] s = "error " -> <<"e", "r", "r", "o", "r", " ">>
      [] s = "ERROR-" -> <<"E", "R", "R", "O", "R", "-">>
      [] s = "retry." -> <<"r", "e", "t", "r", "y", ".">>
      [] s = " " -> <<" ">>
      [] s = "job" -> <<"j", "o", "b">>
      [] s = "a" -> <<"a">>

UpperCaseLetters ==
    <<"A", "B", "C", "D", "E", "F", "G", "H", "I", "J", "K", "L", "M",
      "N", "O", "P", "Q", "R", "S", "T", "U", "V", "W", "X", "Y", "Z">>

LowerCaseLetters ==
    <<"a", "b", "c", "d", "e", "f", "g", "h", "i", "j", "k", "l", "m",
      "n", "o", "p", "q", "r", "s", "t", "u", "v", "w", "x", "y", "z">>

\* String.prototype.toLowerCase, character by character.
toLowerCase(chars) ==
    [i \in 1..Len(chars) |->
        IF \E j \in 1..26 : UpperCaseLetters[j] = chars[i]
        THEN LowerCaseLetters[CHOOSE j \in 1..26 : UpperCaseLetters[j] = chars[i]]
        ELSE chars[i]]

\* String.prototype.includes: needle occurs in hay as a substring.
includes(hay, needle) ==
    \E i \in 0..(Len(hay) - Len(needle)) :
        SubSeq(hay, i + 1, i + Len(needle)) = needle

\* String.prototype.startsWith.
startsWith(hay, prefix) ==
    /\ Len(prefix) <= Len(hay)
    /\ SubSeq(hay, 1, Len(prefix)) = prefix

DigitChars == <<"0", "1", "2", "3", "4", "5", "6", "7", "8", "9">>

RECURSIVE NumberChars(_)
\* String(n) of a non-negative integer: its decimal digits.
NumberChars(n) ==
    IF n < 10 THEN <<DigitChars[n + 1]>>
    ELSE Append(NumberChars(n \div 10), DigitChars[(n % 10) + 1])

(***************************************************************************)
(* JavaScript values held by metadata                                      *)
(***************************************************************************)
Undefined == [t |-> "undefined"]
Bool(b) == [t |-> "bool", b |-> b]
Num(n) == [t |-> "num", n |-> n]
Str(s) == [t |-> "str", s |-> s]

\* The characters of String(v ?? "").
StringOrEmptyChars(v) ==
    CASE v.t = "undefined" -> <<>>
      [] v.t = "num" -> NumberChars(v.n)
      [] v.t = "str" -> StringChars(v.s)
      [] v.t = "bool" -> IF v.b THEN <<"t", "r", "u", "e">> ELSE <<"f", "a", "l", "s", "e">>

Null == [kind |-> "null"]
Thrown == [kind |-> "throw"]

(***************************************************************************)
(* src/core/timeline.ts                                                    *)
(***************************************************************************)
CLUSTER_WINDOW_MS == 15 * 60 * 1000

\* The comparator handed to Array.prototype.sort.
compareTimestamps(a, b) == a.timestamp - b.timestamp

\* insertSorted with ties broken the other way: e goes before the elements
\* that compare equal to it.
insertSortedUnstable(s, e) ==
    LET k == Cardinality({i \in 1..Len(s) : compareTimestamps(s[i], e) < 0})
    IN  SubSeq(s, 1, k) \o <<e>> \o SubSeq(s, k + 1, Len(s))

\* Where a stable sort puts e in the sorted list s: after every element
\* that does not compare greater than e.
insertSorted(s, e) ==
    LET k == Cardinality({i \in 1..Len(s) : compareTimestamps(s[i], e) <= 0})
    IN  SubSeq(s, 1, k) \o <<e>> \o SubSeq(s, k + 1, Len(s))

RECURSIVE sortByTimestamp(_)
\* [...list].sort(compareTimestamps): Array.prototype.sort is stable, the
\* input array is copied and left as it is.
sortByTimestamp(list) ==
    IF list = <<>> THEN <<>>
    ELSE insertSorted(sortByTimestamp(SubSeq(list, 1, Len(list) - 1)), list[Len(list)])

\* eventsAfterSort without the spread: the input array itself is sorted.
eventsAfterSortInPlace(list) == sortByTimestamp(list)

\* The input array after [...events].sort(...): the spread makes a new array
\* and sort works on that one, so the input holds what it held, in its order.
eventsAfterSort(list) == list

\* isTrigger taking an info event as a trigger too.
isTriggerAnySeverity(event) == event.severity \in {"error", "warn", "info"}

\* isTrigger looking at the clock: an event later than now is passed over.
isTriggerBeforeNow(event) ==
    (event.severity = "error" \/ event.severity = "warn") /\ event.timestamp <= now

\* Whether the loop of buildIncidentClusters takes the event as a trigger.
isTrigger(event) == event.severity = "error" \/ event.severity = "warn"

\* inCascade without the identity test: the trigger is in its own cascade.
inCascadeWithTrigger(candidate, event) ==
    LET offset == candidate.timestamp - event.timestamp
    IN  offset >= 0 /\ offset <= CLUSTER_WINDOW_MS

\* inCascade with the upper edge of the window left out.
inCascadeExclusive(candidate, event) ==
    LET offset == candidate.timestamp - event.timestamp
    IN  offset >= 0 /\ offset < CLUSTER_WINDOW_MS /\ candidate.id # event.id

\* The filter predicate of the cascade.
inCascade(candidate, event) ==
    LET offset == candidate.timestamp - event.timestamp
    IN  offset >= 0 /\ offset <= CLUSTER_WINDOW_MS /\ candidate.id # event.id

\* clusterOf with the window closed at the first event of the cascade.
clusterOfFirstCascade(event, sorted) ==
    LET cascade == SelectSeq(sorted, LAMBDA candidate : inCascade(candidate, event))
        windowEnd == IF Len(cascade) # 0 THEN cascade[1].timestamp
                     ELSE event.timestamp
    IN  [triggerEvent |-> event,
         cascade |-> cascade,
         windowStart |-> event.timestamp,
         windowEnd |-> windowEnd]

\* The cluster pushed for one trigger of the sorted list.
clusterOf(event, sorted) ==
    LET cascade == SelectSeq(sorted, LAMBDA candidate : inCascade(candidate, event))
        windowEnd == IF Len(cascade) # 0 THEN cascade[Len(cascade)].timestamp
                     ELSE event.timestamp
    IN  [triggerEvent |-> event,
         cascade |-> cascade,
         windowStart |-> event.timestamp,
         windowEnd |-> windowEnd]

RECURSIVE clustersUpTo(_, _)
\* The clusters array after the first n iterations of the loop over sorted.
clustersUpTo(sorted, n) ==
    IF n = 0 THEN <<>>
    ELSE IF isTrigger(sorted[n])
         THEN Append(clustersUpTo(sorted, n - 1), clusterOf(sorted[n], sorted))
         ELSE clustersUpTo(sorted, n - 1)

\* buildIncidentClusters going through the input array as it is given.
buildIncidentClustersUnsorted(list) == clustersUpTo(list, Len(list))

buildIncidentClusters(list) ==
    LET sorted == sortByTimestamp(list)
    IN  clustersUpTo(sorted, Len(sorted))

(***************************************************************************)
(* src/core/pattern-engine.ts                                              *)
(***************************************************************************)
\* The event types of the inputs and the words the rules look for in them.
EventTypes ==
    {"http.request", "lambda.timeout", "Lambda.TIMEOUT", "job.retry", "queue.retry",
     "process.restart", "Duplicate Execution", "deploy.started", "Deploy.Failed",
     "deploy.restart"}

RuleWords == {"timeout", "retry", "restart", "duplicate execution", "deploy"}

\* lowerCaseTypeIncludes without toLowerCase: the search minds the case.
typeIncludesCaseSensitive ==
    [type \in EventTypes |->
        [word \in RuleWords |-> includes(StringChars(type), StringChars(word))]]

\* type.toLowerCase().includes(word), worked out once for every type and word.
lowerCaseTypeIncludes ==
    [type \in EventTypes |->
        [word \in RuleWords |->
            includes(toLowerCase(StringChars(type)), StringChars(word))]]

\* event.type.toLowerCase().includes(word)
typeIncludes(event, word) == lowerCaseTypeIncludes[event.type][word]

isRetry(event) ==
    \/ typeIncludes(event, "retry")
    \/ (event.metadata.retry.t = "bool" /\ event.metadata.retry.b = TRUE)

isRestart(event) ==
    \/ typeIncludes(event, "restart")
    \/ typeIncludes(event, "duplicate execution")

isExternal429(event) ==
    \/ (event.metadata.status.t = "num" /\ event.metadata.status.n = 429)
    \/ startsWith(StringOrEmptyChars(event.metadata.statusCode), <<"4", "2", "9">>)

\* The properties every plain object inherits from Object.prototype: for
\* such a key acc[key] is not nullish before any own property is set.
ObjectPrototypeKeys ==
    {"constructor", "toString", "toLocaleString", "valueOf", "hasOwnProperty",
     "isPrototypeOf", "propertyIsEnumerable", "__proto__", "__defineGetter__",
     "__defineSetter__", "__lookupGetter__", "__lookupSetter__"}

\* list.reduce over a plain object, keyAt[i] being select(list[i]): keys
\* holds Object.keys (insertion order), groups the arrays; threw says that
\* acc[key].push was called on an inherited property, which is a TypeError.
groupBy(list, keyAt) ==
    LET firsts == SelectSeq([i \in 1..Len(list) |-> i],
                            LAMBDA i : \A j \in 1..(i - 1) : keyAt[j] # keyAt[i])
        keys == [n \in 1..Len(firsts) |-> keyAt[firsts[n]]]
        members(k) == SelectSeq([i \in 1..Len(list) |-> i], LAMBDA i : keyAt[i] = k)
    IN  [threw |-> \E i \in 1..Len(list) : keyAt[i] \in ObjectPrototypeKeys,
         keys |-> keys,
         groups |-> [k \in {keys[n] : n \in 1..Len(keys)} |->
                        [n \in 1..Len(members(k)) |-> list[members(k)[n]]]]]

buildMatch(patternId, rootCauseEvent, evidence, confidence, metadata) ==
    [kind |-> "match",
     patternId |-> patternId,
     rootCauseEvent |-> rootCauseEvent,
     evidence |-> evidence,
     confidence |-> confidence,
     metadata |-> metadata]

\* Array.prototype.slice(0, n)
sliceFirst(list, n) == SubSeq(list, 1, IF Len(list) < n THEN Len(list) ELSE n)

\* matchServerlessTimeoutCascade putting the trigger last in the evidence.
matchServerlessTimeoutCascadeTriggerLast(cluster) ==
    LET triggerEvent == cluster.triggerEvent
        cascade == cluster.cascade
        evidence ==
            SelectSeq(cascade, LAMBDA event :
                isRetry(event) \/ isRestart(event) \/ isExternal429(event))
            \o <<triggerEvent>>
        hasRetry == \E i \in 1..Len(cascade) : isRetry(cascade[i])
        hasRestart == \E i \in 1..Len(cascade) : isRestart(cascade[i])
        confidence == IF hasRestart THEN 87 ELSE 82
    IN  IF ~typeIncludes(triggerEvent, "timeout") THEN Null
        ELSE IF ~hasRetry THEN Null
        ELSE buildMatch("SERVERLESS_TIMEOUT_CASCADE", triggerEvent, evidence, confidence,
                 [retryCount |-> Len(SelectSeq(cascade, isRetry)),
                  restartDetected |-> hasRestart])

matchServerlessTimeoutCascade(cluster) ==
    LET triggerEvent == cluster.triggerEvent
        cascade == cluster.cascade
        evidence == <<triggerEvent>> \o
            SelectSeq(cascade, LAMBDA event :
                isRetry(event) \/ isRestart(event) \/ isExternal429(event))
        hasRetry == \E i \in 1..Len(cascade) : isRetry(cascade[i])
        hasRestart == \E i \in 1..Len(cascade) : isRestart(cascade[i])
        confidence == IF hasRestart THEN 87 ELSE 82
    IN  IF ~typeIncludes(triggerEvent, "timeout") THEN Null
        ELSE IF ~hasRetry THEN Null
        ELSE buildMatch("SERVERLESS_TIMEOUT_CASCADE", triggerEvent, evidence, confidence,
                 [retryCount |-> Len(SelectSeq(cascade, isRetry)),
                  restartDetected |-> hasRestart])

\* String(event.metadata.jobName ?? "unknown")
jobNameKey(event) ==
    LET v == event.metadata.jobName
    IN  CASE v.t = "undefined" -> "unknown"
          [] v.t = "str" -> v.s
          [] v.t = "num" -> ToString(v.n)
          [] v.t = "bool" -> IF v.b THEN "true" ELSE "false"

\* matchRetryStorm naming the latest retry, not the earliest, as the root.
matchRetryStormLastRoot(cluster) ==
    LET cascade == cluster.cascade
        retries == SelectSeq(cascade, LAMBDA event : isRetry(event))
        grouped == groupBy(retries, [i \in 1..Len(retries) |-> jobNameKey(retries[i])])
        hasBusyJob == \E k \in DOMAIN grouped.groups : Len(grouped.groups[k]) >= 3
        root == retries[Len(retries)]
        evidence == sliceFirst(retries, 5)
    IN  IF Len(retries) < 3 THEN Null
        ELSE IF grouped.threw THEN Thrown
        ELSE IF ~hasBusyJob THEN Null
        ELSE buildMatch("RETRY_STORM", root, evidence, 74,
                 [retries |-> Len(retries), jobs |-> grouped.keys])

matchRetryStorm(cluster) ==
    LET cascade == cluster.cascade
        retries == SelectSeq(cascade, LAMBDA event : isRetry(event))
        grouped == groupBy(retries, [i \in 1..Len(retries) |-> jobNameKey(retries[i])])
        hasBusyJob == \E k \in DOMAIN grouped.groups : Len(grouped.groups[k]) >= 3
        root == retries[1]
        evidence == sliceFirst(retries, 5)
    IN  IF Len(retries) < 3 THEN Null
        ELSE IF grouped.threw THEN Thrown
        ELSE IF ~hasBusyJob THEN Null
        ELSE buildMatch("RETRY_STORM", root, evidence, 74,
                 [retries |-> Len(retries), jobs |-> grouped.keys])

\* matchDeployFailure counting only the errors strictly after the deploy.
matchDeployFailureStrictlyAfter(cluster) ==
    LET timeline == <<cluster.triggerEvent>> \o cluster.cascade
        found == {i \in 1..Len(timeline) : typeIncludes(timeline[i], "deploy")}
        deployEvent == timeline[CHOOSE i \in found : \A j \in found : i <= j]
        errorsAfterDeployment == SelectSeq(timeline, LAMBDA event :
            event.timestamp > deployEvent.timestamp /\ event.severity = "error")
    IN  IF found = {} THEN Null
        ELSE IF Len(errorsAfterDeployment) = 0 THEN Null
        ELSE buildMatch("DEPLOY_FAILURE", deployEvent, errorsAfterDeployment, 72,
                 [deployEventType |-> deployEvent.type,
                  errorCount |-> Len(errorsAfterDeployment)])

\* matchDeployFailure never counting the deploy event among the errors.
matchDeployFailureOtherErrors(cluster) ==
    LET timeline == <<cluster.triggerEvent>> \o cluster.cascade
        found == {i \in 1..Len(timeline) : typeIncludes(timeline[i], "deploy")}
        deployEvent == timeline[CHOOSE i \in found : \A j \in found : i <= j]
        errorsAfterDeployment == SelectSeq(timeline, LAMBDA event :
            /\ event.timestamp >= deployEvent.timestamp
            /\ event.severity = "error"
            /\ event.id # deployEvent.id)
    IN  IF found = {} THEN Null
        ELSE IF Len(errorsAfterDeployment) = 0 THEN Null
        ELSE buildMatch("DEPLOY_FAILURE", deployEvent, errorsAfterDeployment, 72,
                 [deployEventType |-> deployEvent.type,
                  errorCount |-> Len(errorsAfterDeployment)])

\* matchDeployFailure taking the last deploy event of the scan, not the first.
matchDeployFailureLastDeploy(cluster) ==
    LET timeline == <<cluster.triggerEvent>> \o cluster.cascade
        found == {i \in 1..Len(timeline) : typeIncludes(timeline[i], "deploy")}
        deployEvent == timeline[CHOOSE i \in found : \A j \in found : i >= j]
        errorsAfterDeployment == SelectSeq(timeline, LAMBDA event :
            event.timestamp >= deployEvent.timestamp /\ event.severity = "error")
    IN  IF found = {} THEN Null
        ELSE IF Len(errorsAfterDeployment) = 0 THEN Null
        ELSE buildMatch("DEPLOY_FAILURE", deployEvent, errorsAfterDeployment, 72,
                 [deployEventType |-> deployEvent.type,
                  errorCount |-> Len(errorsAfterDeployment)])

matchDeployFailure(cluster) ==
    LET timeline == <<cluster.triggerEvent>> \o cluster.cascade
        found == {i \in 1..Len(timeline) : typeIncludes(timeline[i], "deploy")}
        deployEvent == timeline[CHOOSE i \in found : \A j \in found : i <= j]
        errorsAfterDeployment == SelectSeq(timeline, LAMBDA event :
            event.timestamp >= deployEvent.timestamp /\ event.severity = "error")
    IN  IF found = {} THEN Null
        ELSE IF Len(errorsAfterDeployment) = 0 THEN Null
        ELSE buildMatch("DEPLOY_FAILURE", deployEvent, errorsAfterDeployment, 72,
                 [deployEventType |-> deployEvent.type,
                  errorCount |-> Len(errorsAfterDeployment)])

\* matchCrashLoop content with a single restart.
matchCrashLoopSingleRestart(cluster) ==
    LET restarts == SelectSeq(cluster.cascade, LAMBDA event : isRestart(event))
        root == restarts[1]
        evidence == sliceFirst(restarts, 3)
    IN  IF Len(restarts) < 1 THEN Null
        ELSE buildMatch("CRASH_LOOP", root, evidence, 66,
                 [restartCount |-> Len(restarts)])

\* matchCrashLoop with a confidence that grows with the restarts counted.
matchCrashLoopByCount(cluster) ==
    LET restarts == SelectSeq(cluster.cascade, LAMBDA event : isRestart(event))
        root == restarts[1]
        evidence == sliceFirst(restarts, 3)
    IN  IF Len(restarts) < 2 THEN Null
        ELSE buildMatch("CRASH_LOOP", root, evidence, 60 + 3 * Len(restarts),
                 [restartCount |-> Len(restarts)])

\* matchCrashLoop counting the trigger with the restarts of the cascade.
matchCrashLoopWithTrigger(cluster) ==
    LET restarts == SelectSeq(<<cluster.triggerEvent>> \o cluster.cascade,
                              LAMBDA event : isRestart(event))
        root == restarts[1]
        evidence == sliceFirst(restarts, 3)
    IN  IF Len(restarts) < 2 THEN Null
        ELSE buildMatch("CRASH_LOOP", root, evidence, 66,
                 [restartCount |-> Len(restarts)])

\* matchCrashLoop handing every restart over as evidence.
matchCrashLoopAllEvidence(cluster) ==
    LET restarts == SelectSeq(cluster.cascade, LAMBDA event : isRestart(event))
        root == restarts[1]
    IN  IF Len(restarts) < 2 THEN Null
        ELSE buildMatch("CRASH_LOOP", root, restarts, 66,
                 [restartCount |-> Len(restarts)])

matchCrashLoop(cluster) ==
    LET restarts == SelectSeq(cluster.cascade, LAMBDA event : isRestart(event))
        root == restarts[1]
        evidence == sliceFirst(restarts, 3)
    IN  IF Len(restarts) < 2 THEN Null
        ELSE buildMatch("CRASH_LOOP", root, evidence, 66,
                 [restartCount |-> Len(restarts)])

\* patternMatchers with the crash loop tried before the deploy failure and
\* the retry storm.
patternMatchersCrashLoopEarly ==
    <<"matchServerlessTimeoutCascade", "matchCrashLoop", "matchRetryStorm",
      "matchDeployFailure">>

\* The array of matchers, in its order.
patternMatchers ==
    <<"matchServerlessTimeoutCascade", "matchRetryStorm", "matchDeployFailure",
      "matchCrashLoop">>

\* matcher(cluster), for an element of patternMatchers.
callMatcher(matcher, cluster) ==
    CASE matcher = "matchServerlessTimeoutCascade" -> matchServerlessTimeoutCascade(cluster)
      [] matcher = "matchRetryStorm" -> matchRetryStorm(cluster)
      [] matcher = "matchDeployFailure" -> matchDeployFailure(cluster)
      [] matcher = "matchCrashLoop" -> matchCrashLoop(cluster)

\* matchFrom giving up at the first matcher that returns null.
matchFromEndsAtDecline(n, cluster) ==
    IF n > Len(patternMatchers) THEN Null
    ELSE callMatcher(patternMatchers[n], cluster)

RECURSIVE matchFrom(_, _)
\* The loop of matchPattern from the n-th matcher on: the first result that
\* is not null is returned (a TypeError leaves the loop too).
matchFrom(n, cluster) ==
    IF n > Len(patternMatchers) THEN Null
    ELSE LET found == callMatcher(patternMatchers[n], cluster)
         IN  IF found.kind # "null" THEN found ELSE matchFrom(n + 1, cluster)

matchPattern(cluster) == matchFrom(1, cluster)

(***************************************************************************)
(* src/core/correlator.ts                                                  *)
(***************************************************************************)
RECURSIVE correlateFrom(_, _, _)
\* The loop over clusters from the n-th on.
correlateFrom(n, clusterList, sortedTimeline) ==
    IF n > Len(clusterList) THEN Null
    ELSE LET found == matchPattern(clusterList[n])
         IN  CASE found.kind = "throw" -> Thrown
               [] found.kind = "match" ->
                    [kind |-> "report",
                     cluster |-> clusterList[n],
                     match |-> found,
                     timeline |-> sortedTimeline]
               [] OTHER -> correlateFrom(n + 1, clusterList, sortedTimeline)

\* correlateEvents handing back the input array as the timeline.
correlateEventsUnsorted(list) ==
    correlateFrom(1, buildIncidentClusters(list), list)

\* The input array after correlateEvents: it is copied and sorted for the
\* timeline, and again inside buildIncidentClusters; the loops only read.
eventsAfterCorrelate(list) == eventsAfterSort(eventsAfterSort(list))

correlateEvents(list) ==
    LET sortedTimeline == sortByTimestamp(list)
        clusterList == buildIncidentClusters(list)
    IN  correlateFrom(1, clusterList, sortedTimeline)

(***************************************************************************)
(* src/core/query-filter.ts                                                *)
(***************************************************************************)
MIN_TERM_LENGTH == 3

\* A query that was given: its characters.
Query(chars) == [t |-> "str", chars |-> chars]

\* The characters that /[^a-z0-9]/ does not match.
TermChars ==
    {LowerCaseLetters[j] : j \in 1..26} \cup {DigitChars[j] : j \in 1..10}

\* The white space String.prototype.trim takes off.
WhiteSpaceChars == {" ", "\t", "\n", "\r"}

\* String.prototype.trim
trim(chars) ==
    LET inked == {i \in 1..Len(chars) : chars[i] \notin WhiteSpaceChars}
    IN  IF inked = {} THEN <<>>
        ELSE SubSeq(chars, CHOOSE i \in inked : \A j \in inked : i <= j,
                           CHOOSE i \in inked : \A j \in inked : i >= j)

RECURSIVE splitFrom(_, _, _, _)
\* The loop of split: acc holds the pieces that are closed, piece the one
\* being read; a run of separators closes one piece.
splitFrom(chars, i, piece, acc) ==
    IF i > Len(chars) THEN Append(acc, piece)
    ELSE IF chars[i] \in TermChars
         THEN splitFrom(chars, i + 1, Append(piece, chars[i]), acc)
         ELSE IF i > 1 /\ chars[i - 1] \notin TermChars
              THEN splitFrom(chars, i + 1, piece, acc)
              ELSE splitFrom(chars, i + 1, <<>>, Append(acc, piece))

\* String.prototype.split(/[^a-z0-9]+/g): a separator at either end leaves
\* an empty string there, and the empty string splits into [""].
split(chars) == splitFrom(chars, 1, <<>>, <<>>)

\* extractQueryTerms with no least length for a term.
extractQueryTermsAnyLength(chars) ==
    LET pieces == split(toLowerCase(chars))
        trimmed == [n \in 1..Len(pieces) |-> trim(pieces[n])]
    IN  SelectSeq(trimmed, LAMBDA term : Len(term) >= 1)

extractQueryTerms(chars) ==
    LET pieces == split(toLowerCase(chars))
        trimmed == [n \in 1..Len(pieces) |-> trim(pieces[n])]
    IN  SelectSeq(trimmed, LAMBDA term : Len(term) >= MIN_TERM_LENGTH)

RECURSIVE joinChars(_, _)
\* Array.prototype.join
joinChars(parts, separator) ==
    IF Len(parts) = 0 THEN <<>>
    ELSE IF Len(parts) = 1 THEN parts[1]
    ELSE joinChars(SubSeq(parts, 1, Len(parts) - 1), separator)
             \o separator \o parts[Len(parts)]

\* The keys a metadata object may hold, in the order they were set.
MetadataKeys == <<"retry", "status", "statusCode", "jobName">>

\* JSON.stringify of a value that is not undefined.
jsonValue(v) ==
    CASE v.t = "bool" -> IF v.b THEN <<"t", "r", "u", "e">> ELSE <<"f", "a", "l", "s", "e">>
      [] v.t = "num" -> NumberChars(v.n)
      [] v.t = "str" -> <<"\"">> \o StringChars(v.s) \o <<"\"">>

\* JSON.stringify(metadata): the keys whose value is undefined are left out.
jsonStringify(metadata) ==
    LET present == SelectSeq(MetadataKeys, LAMBDA k : metadata[k].t # "undefined")
        member(k) == <<"\"">> \o StringChars(k) \o <<"\"", ":">> \o jsonValue(metadata[k])
    IN  <<"{">> \o joinChars([n \in 1..Len(present) |-> member(present[n])], <<",">>)
            \o <<"}">>

serializeEvent(event) ==
    toLowerCase(joinChars(<<StringChars(event.type), StringChars(event.source),
                            StringChars(event.severity), jsonStringify(event.metadata)>>,
                          <<" ">>))

\* filterEventsByQuery handing the kept events back latest first.
filterEventsByQueryReversed(list, q) ==
    LET normalizedQuery == IF q.t = "undefined" THEN <<>> ELSE trim(q.chars)
        terms == extractQueryTerms(normalizedQuery)
        requiredMatches == IF Len(terms) < 2 THEN Len(terms) ELSE 2
        keep(event) ==
            LET haystack == serializeEvent(event)
                matchCount == Len(SelectSeq(terms, LAMBDA term : includes(haystack, term)))
            IN  matchCount >= requiredMatches
        passed == SelectSeq(list, keep)
    IN  IF Len(normalizedQuery) = 0 THEN list
        ELSE IF Len(terms) = 0 THEN list
        ELSE [n \in 1..Len(passed) |-> passed[Len(passed) + 1 - n]]

filterEventsByQuery(list, q) ==
    LET normalizedQuery == IF q.t = "undefined" THEN <<>> ELSE trim(q.chars)
        terms == extractQueryTerms(normalizedQuery)
        requiredMatches == IF Len(terms) < 2 THEN Len(terms) ELSE 2
        keep(event) ==
            LET haystack == serializeEvent(event)
                matchCount == Len(SelectSeq(terms, LAMBDA term : includes(haystack, term)))
            IN  matchCount >= requiredMatches
    IN  IF Len(normalizedQuery) = 0 THEN list
        ELSE IF Len(terms) = 0 THEN list
        ELSE SelectSeq(list, keep)

(***************************************************************************)
(* Inputs                                                                  *)
(***************************************************************************)
MaxEvents == 4

\* How often the clock moves between two calls, and by how much.
MaxTicks == 1

Minute == 60 * 1000

TickMs == 30 * Minute

NoMetadata ==
    [retry |-> Undefined, status |-> Undefined, statusCode |-> Undefined,
     jobName |-> Undefined]

\* An event before it is given its place in an input array.
Proto(type, severity, timestamp, metadata) ==
    [type |-> type, severity |-> severity, timestamp |-> timestamp,
     metadata |-> metadata]

\* The NormalizedEvent object at position id of the input array.
Event(id, proto) ==
    [id |-> id, source |-> "local", type |-> proto.type, severity |-> proto.severity,
     timestamp |-> proto.timestamp, metadata |-> proto.metadata]

Request(severity, timestamp) == Proto("http.request", severity, timestamp, NoMetadata)
Timeout(timestamp) == Proto("lambda.timeout", "error", timestamp, NoMetadata)
TimeoutUpper(timestamp) == Proto("Lambda.TIMEOUT", "warn", timestamp, NoMetadata)
JobRetry(timestamp) == Proto("job.retry", "info", timestamp, NoMetadata)
QueueRetry(severity, timestamp, jobName) ==
    Proto("queue.retry", severity, timestamp, [NoMetadata EXCEPT !.jobName = Str(jobName)])
Restart(severity, timestamp) == Proto("process.restart", severity, timestamp, NoMetadata)
\* A restart by its type that is a retry by its metadata flag.
DuplicateExecution(timestamp) ==
    Proto("Duplicate Execution", "info", timestamp,
          [NoMetadata EXCEPT !.retry = Bool(TRUE), !.jobName = Str("billing-sync")])
DeployStarted(severity, timestamp) == Proto("deploy.started", severity, timestamp, NoMetadata)
DeployFailed(timestamp) == Proto("Deploy.Failed", "error", timestamp, NoMetadata)
\* The restart of a deployment: a restart and a deploy event by its type.
DeployRestart(severity, timestamp) == Proto("deploy.restart", severity, timestamp, NoMetadata)
Status(status, timestamp) ==
    Proto("http.request", "info", timestamp, [NoMetadata EXCEPT !.status = status])
StatusCode(statusCode, timestamp) ==
    Proto("http.request", "info", timestamp, [NoMetadata EXCEPT !.statusCode = statusCode])

\* The window's edges, seen from a trigger at 0 and from a trigger at 1.
WindowPool ==
    {Request("error", 0), Request("warn", 0), Request("error", 1),
     Restart("info", CLUSTER_WINDOW_MS), Restart("info", CLUSTER_WINDOW_MS + 1)}

TimeoutPool ==
    {Request("error", 0), Timeout(0), TimeoutUpper(1), JobRetry(1),
     Restart("info", 1), DuplicateExecution(1)}

RateLimitPool ==
    {Timeout(0), JobRetry(1), Status(Num(429), 1), Status(Str("429"), 1),
     Status(Num(500), 1), StatusCode(Num(4290), 1), StatusCode(Str("429"), 1),
     StatusCode(Num(42), 1)}

StormPool ==
    {Request("error", 0), Timeout(0), DeployFailed(0),
     QueueRetry("info", 1, "billing-sync"), JobRetry(1), DuplicateExecution(1)}

PrototypePool ==
    {Request("error", 0), QueueRetry("info", 1, "constructor"),
     QueueRetry("info", 1, "billing-sync")}

\* Errors before a deploy event, at its timestamp and after it.
DeployPool ==
    {Request("error", 0), Request("warn", 0), DeployStarted("info", 1),
     Request("error", 1), DeployFailed(1), Request("error", 2)}

\* Events of severity info of every kind the rules look for.
InfoPool ==
    {Proto("lambda.timeout", "info", 0, NoMetadata), JobRetry(1),
     QueueRetry("info", 1, "constructor"), Restart("info", 1),
     DeployStarted("info", 0), StatusCode(Num(429), 1)}

\* Restarts and retries of one job that are all warnings or errors, so that
\* each of them is a trigger.
TriggersPool ==
    {Restart("warn", 0), Restart("error", 1), DeployRestart("error", 1),
     QueueRetry("warn", 0, "billing-sync"), QueueRetry("error", 1, "billing-sync")}

\* A timeout with no retry after it, and what the later rules look for:
\* restarts, deploy events and errors.
DeclinePool ==
    {Timeout(0), Restart("info", 1), Restart("info", 2), DeployStarted("info", 1),
     DeployFailed(2), Request("error", 2)}

Pools ==
    {WindowPool, TimeoutPool, RateLimitPool, StormPool, PrototypePool, DeployPool,
     InfoPool, TriggersPool, DeclinePool}

(***************************************************************************)
(* The scenarios of the specification's section 8, with what they leave    *)
(* open (severities, the order of the input array) drawn from small sets.  *)
(***************************************************************************)
Severities == {"info", "warn", "error"}

\* The scenarios' t0.
T0 == 20 * Minute

\* The arrays that hold the elements of protos in some order.
Orders(protos) ==
    {[i \in 1..Len(protos) |-> protos[p[i]]] : p \in Permutations(1..Len(protos))}

\* A: lambda.timeout (error) at t0, job.retry at t0+2min, process.restart at
\* t0+4min.
ScenarioA ==
    UNION {Orders(<<Proto("lambda.timeout", "error", T0, NoMetadata),
                    Proto("job.retry", s1, T0 + 2 * Minute, NoMetadata),
                    Proto("process.restart", s2, T0 + 4 * Minute, NoMetadata)>>) :
           s1 \in Severities, s2 \in Severities}

\* B: five queue.retry events of job billing-sync within 10 minutes, two
\* minutes apart or all at once, oldest first or newest first.
ScenarioB ==
    {[i \in 1..5 |-> QueueRetry(sev[i], T0 + gap * (IF up THEN i - 1 ELSE 5 - i), "billing-sync")] :
        sev \in [1..5 -> Severities], gap \in {0, 2 * Minute}, up \in BOOLEAN}

\* C: deploy.started (not itself an error) at t0, errors at t0+1min and
\* t0+3min, an error at t0-1min.
ScenarioC ==
    UNION {Orders(<<DeployStarted(s, T0),
                    Proto(ty[1], "error", T0 + Minute, NoMetadata),
                    Proto(ty[2], "error", T0 + 3 * Minute, NoMetadata),
                    Proto(ty[3], "error", T0 - Minute, NoMetadata)>>) :
           s \in {"info", "warn"}, ty \in [1..3 -> {"http.request", "lambda.timeout"}]}

\* E: two restarts one minute apart, alone or with one plain request.
ScenarioE ==
    UNION {Orders(<<Restart(s1, T0), Restart(s2, T0 + Minute)>>) \cup
           UNION {Orders(<<Restart(s1, T0), Restart(s2, T0 + Minute), Request(s3, t3)>>) :
                  s3 \in Severities,
                  t3 \in {T0 - 15 * Minute, T0 - 14 * Minute, T0 - Minute, T0 + 2 * Minute}} :
           s1 \in Severities, s2 \in Severities}

\* An error followed by six retries, of three jobs and of no job, a minute
\* or two later: more retries than a match shows.
StormRuns ==
    {<<Request("error", 0)>> \o r :
        r \in [1..6 -> {QueueRetry("info", Minute, "billing-sync"), JobRetry(Minute),
                        QueueRetry("info", 2 * Minute, "unknown"),
                        QueueRetry("info", 2 * Minute, "nightly-export")}]}

\* An error followed by four events, restarts of either kind and plain
\* requests: more restarts than a match shows.
RestartRuns ==
    {<<Request("error", 0)>> \o r :
        r \in [1..4 -> {Restart("info", Minute), Restart("info", 2 * Minute),
                        Proto("Duplicate Execution", "info", 2 * Minute, NoMetadata),
                        Request("info", Minute)}]}

Scenarios ==
    ScenarioA \cup ScenarioB \cup ScenarioC \cup ScenarioE \cup StormRuns \cup RestartRuns

\* The input array holding the events protos[1], protos[2], ...
InputOf(protos) == [i \in 1..Len(protos) |-> Event(i, protos[i])]

(***************************************************************************)
(* The state machine: an input is given, and the exported functions are    *)
(* applied to it.                                                          *)
(***************************************************************************)
\* An input of at most MaxEvents events, all of one pool.
PoolInput ==
    \E pool \in Pools : \E n \in 0..MaxEvents : \E protos \in [1..n -> pool] :
        events = InputOf(protos)

\* An input of one of the scenarios.
ScenarioInput == \E protos \in Scenarios : events = InputOf(protos)

Init ==
    /\ (PoolInput \/ ScenarioInput)
    /\ pc = "ready"
    /\ clusters = <<>>
    /\ picked = 0
    /\ match = Null
    /\ report = Null
    /\ again = Null
    /\ shuffled = <<>>
    /\ now = 0
    /\ query = Undefined
    /\ kept = <<>>
    /\ feeds = <<>>
    /\ adapters = <<>>
    /\ flattened = <<>>
    /\ logged = <<>>
    /\ normalized = <<>>
    /\ settled = <<>>
    /\ calls = 0

\* buildIncidentClusters(events)
BuildClusters ==
    /\ pc = "ready"
    /\ clusters' = buildIncidentClusters(events)
    /\ events' = eventsAfterSort(events)
    /\ pc' = "clustered"
    /\ UNCHANGED <<picked, match, report, again, shuffled, now, filterVars, scanVars>>

\* matchPattern(cluster), for a cluster of the list
MatchPattern ==
    /\ pc = "clustered"
    /\ \E n \in 1..Len(clusters) :
        /\ picked' = n
        /\ match' = matchPattern(clusters[n])
    /\ pc' = "matched"
    /\ UNCHANGED <<events, clusters, report, again, shuffled, now, filterVars, scanVars>>

\* correlateEvents(events)
Correlate ==
    /\ pc = "ready"
    /\ report' = correlateEvents(events)
    /\ events' = eventsAfterCorrelate(events)
    /\ pc' = "correlated"
    /\ UNCHANGED <<clusters, picked, match, again, shuffled, now, filterVars, scanVars>>

\* Time passes between two calls.
Tick ==
    /\ pc = "correlated"
    /\ now < MaxTicks * TickMs
    /\ now' = now + TickMs
    /\ UNCHANGED <<events, pc, clusters, picked, match, report, again, shuffled, filterVars, scanVars>>

\* correlateEvents(events), called a second time on the same array
CorrelateAgain ==
    /\ pc = "correlated"
    /\ again' = correlateEvents(events)
    /\ events' = eventsAfterCorrelate(events)
    /\ pc' = "recorrelated"
    /\ UNCHANGED <<clusters, picked, match, report, shuffled, now, filterVars, scanVars>>

Next == BuildClusters \/ MatchPattern \/ Correlate \/ Tick \/ CorrelateAgain

Spec == Init /\ [][Next]_vars

(***************************************************************************)
(* filterEventsByQuery applied to a list of events and a query.            *)
(***************************************************************************)
MaxFilterEvents == 2

MaxQueryPieces == 3

\* What the queries are put together from: words in either case with a
\* separator after them, a word too short to be a term, a blank, and words
\* with nothing after them.
QueryPieces == {"error ", "ERROR-", "retry.", " ", "job", "a"}

\* Events whose type, severity and metadata hold the words of the queries.
FilterPool ==
    {Request("error", 0), JobRetry(1), QueueRetry("warn", 1, "error"),
     Status(Num(429), 1), TimeoutUpper(1)}

RECURSIVE concatPieces(_)
\* The characters of the pieces, one after the other.
concatPieces(pieces) ==
    IF Len(pieces) = 0 THEN <<>>
    ELSE concatPieces(SubSeq(pieces, 1, Len(pieces) - 1))
             \o StringChars(pieces[Len(pieces)])

FilterInit ==
    /\ \E n \in 0..MaxFilterEvents : \E protos \in [1..n -> FilterPool] :
          events = InputOf(protos)
    /\ \/ query = Undefined
       \/ \E n \in 0..MaxQueryPieces : \E pieces \in [1..n -> QueryPieces] :
             query = Query(concatPieces(pieces))
    /\ pc = "ready"
    /\ clusters = <<>>
    /\ picked = 0
    /\ match = Null
    /\ report = Null
    /\ again = Null
    /\ shuffled = <<>>
    /\ now = 0
    /\ kept = <<>>
    /\ feeds = <<>>
    /\ adapters = <<>>
    /\ flattened = <<>>
    /\ logged = <<>>
    /\ normalized = <<>>
    /\ settled = <<>>
    /\ calls = 0

\* filterEventsByQuery(events, query)
Filter ==
    /\ pc = "ready"
    /\ kept' = filterEventsByQuery(events, query)
    /\ pc' = "filtered"
    /\ UNCHANGED <<events, clusters, picked, match, report, again, shuffled, now, query, scanVars>>

FilterNext == Filter

FilterSpec == FilterInit /\ [][FilterNext]_vars

(***************************************************************************)
(* src/core/investigator.ts: runInvestigation, from the creation of the    *)
(* connectors to the call of correlateEvents. The three fetchEvents are    *)
(* started together; each promise settles on its own, in any order.        *)
(***************************************************************************)
\* The connectors array, in its order.
connectors == <<"trigger", "local", "datadog">>

\* The connectors whose fetchEvents can reject: the trigger and the datadog
\* connector build their transport outside the try block and await
\* transport.close() in its finally block; the local connector catches all.
CanReject == {1, 3}

\* The NormalizedEvent object with the given identity and source.
EventFrom(id, source, proto) == [Event(id, proto) EXCEPT !.source = source]

\* What a connector may have to deliver before the query is applied.
FeedChoices ==
    {<<>>,
     <<Timeout(0)>>,
     <<JobRetry(1), Restart("info", 2)>>,
     <<Request("error", 0), QueueRetry("info", 1, "constructor"),
       QueueRetry("info", 1, "constructor"), QueueRetry("info", 1, "constructor")>>,
     <<QueueRetry("warn", 0, "billing-sync"), Request("info", 1),
       QueueRetry("info", 1, "billing-sync")>>}

\* The queries given to runInvestigation.
ScanQueries == {Undefined, Query(StringChars("retry.")), Query(StringChars("error "))}

\* The events of the three connectors, each event an object of its own.
FeedsOf(protos) ==
    [a \in 1..3 |->
        [i \in 1..Len(protos[a]) |->
            EventFrom(10 * a + i, connectors[a], protos[a][i])]]

Pending == [status |-> "pending"]
Fulfilled(value) == [status |-> "fulfilled", value |-> value]
Rejected == [status |-> "rejected"]

ScanInit ==
    /\ \E protos \in [1..3 -> FeedChoices] : feeds = FeedsOf(protos)
    /\ query \in ScanQueries
    /\ pc = "scan.ready"
    /\ adapters = <<>>
    /\ flattened = <<>>
    /\ logged = <<>>
    /\ normalized = [a \in 1..3 |-> <<>>]
    /\ settled = <<>>
    /\ calls = 0
    /\ events = <<>>
    /\ clusters = <<>>
    /\ picked = 0
    /\ match = Null
    /\ report = Null
    /\ again = Null
    /\ shuffled = <<>>
    /\ now = 0
    /\ kept = <<>>

\* connectors.map((connector) => connector.fetchEvents(windowStart, query)),
\* handed to Promise.allSettled: every fetch is started.
StartFetches ==
    /\ pc = "scan.ready"
    /\ adapters' = [a \in 1..3 |-> Pending]
    /\ pc' = "scan.awaiting"
    /\ UNCHANGED <<events, clusters, picked, match, report, again, shuffled, now, filterVars,
                   feeds, flattened, logged, normalized, settled, calls>>

\* FetchReturns without the query: the connector returns all it normalized.
FetchReturnsUnfiltered(a) ==
    /\ pc = "scan.awaiting"
    /\ adapters[a] = Pending
    /\ normalized' = [normalized EXCEPT ![a] = feeds[a]]
    /\ adapters' = [adapters EXCEPT ![a] = Fulfilled(feeds[a])]
    /\ settled' = Append(settled, a)
    /\ UNCHANGED <<events, pc, clusters, picked, match, report, again, shuffled, now, filterVars,
                   feeds, flattened, logged, calls>>

\* A fetchEvents returns filterEventsByQuery(normalized, query).
FetchReturns(a) ==
    /\ pc = "scan.awaiting"
    /\ adapters[a] = Pending
    /\ normalized' = [normalized EXCEPT ![a] = feeds[a]]
    /\ adapters' = [adapters EXCEPT ![a] = Fulfilled(filterEventsByQuery(normalized'[a], query))]
    /\ settled' = Append(settled, a)
    /\ UNCHANGED <<events, pc, clusters, picked, match, report, again, shuffled, now, filterVars,
                   feeds, flattened, logged, calls>>

\* A fetchEvents returns []: the connector is not configured, or an error
\* was caught and logged inside it.
FetchReturnsNothing(a) ==
    /\ pc = "scan.awaiting"
    /\ adapters[a] = Pending
    /\ adapters' = [adapters EXCEPT ![a] = Fulfilled(<<>>)]
    /\ settled' = Append(settled, a)
    /\ UNCHANGED <<events, pc, clusters, picked, match, report, again, shuffled, now, filterVars,
                   feeds, flattened, logged, normalized, calls>>

\* A fetchEvents rejects: before anything was fetched, when the transport
\* cannot be built, or at transport.close() in the finally block, when the
\* events were normalized and the value to return was at hand.
FetchRejects(a) ==
    /\ pc = "scan.awaiting"
    /\ a \in CanReject
    /\ adapters[a] = Pending
    /\ adapters' = [adapters EXCEPT ![a] = Rejected]
    /\ \E done \in {<<>>, feeds[a]} : normalized' = [normalized EXCEPT ![a] = done]
    /\ settled' = Append(settled, a)
    /\ UNCHANGED <<events, pc, clusters, picked, match, report, again, shuffled, now, filterVars,
                   feeds, flattened, logged, calls>>

RECURSIVE flattenUpTo(_, _)
\* flattened after the first n rounds of connectorResults.forEach.
flattenUpTo(results, n) ==
    IF n = 0 THEN <<>>
    ELSE IF results[n].status = "fulfilled"
         THEN flattenUpTo(results, n - 1) \o results[n].value
         ELSE flattenUpTo(results, n - 1)

RECURSIVE loggedUpTo(_, _)
\* The connectors reported by console.error in the first n rounds.
loggedUpTo(results, n) ==
    IF n = 0 THEN <<>>
    ELSE IF results[n].status = "fulfilled"
         THEN loggedUpTo(results, n - 1)
         ELSE Append(loggedUpTo(results, n - 1), connectors[n])

\* Promise.all in the place of Promise.allSettled: a rejection rejects the
\* whole, and runInvestigation ends there.
MergeAllOrNothing ==
    /\ pc = "scan.awaiting"
    /\ \A a \in 1..3 : adapters[a] # Pending
    /\ IF \E a \in 1..3 : adapters[a] = Rejected
       THEN pc' = "scan.aborted" /\ UNCHANGED <<flattened, logged>>
       ELSE /\ flattened' = flattenUpTo(adapters, 3)
            /\ logged' = <<>>
            /\ pc' = "scan.merged"
    /\ UNCHANGED <<events, clusters, picked, match, report, again, shuffled, now, filterVars,
                   feeds, adapters, normalized, settled, calls>>

\* Merge pushing the results in the order in which the promises settled.
MergeInCompletionOrder ==
    /\ pc = "scan.awaiting"
    /\ \A a \in 1..3 : adapters[a] # Pending
    /\ LET valueAt(k) == IF adapters[settled[k]].status = "fulfilled"
                         THEN adapters[settled[k]].value ELSE <<>>
       IN  flattened' = valueAt(1) \o valueAt(2) \o valueAt(3)
    /\ logged' = loggedUpTo(adapters, 3)
    /\ pc' = "scan.merged"
    /\ UNCHANGED <<events, clusters, picked, match, report, again, shuffled, now, filterVars,
                   feeds, adapters, normalized, settled, calls>>

\* Promise.allSettled has resolved: the forEach over connectorResults.
Merge ==
    /\ pc = "scan.awaiting"
    /\ \A a \in 1..3 : adapters[a] # Pending
    /\ flattened' = flattenUpTo(adapters, 3)
    /\ logged' = loggedUpTo(adapters, 3)
    /\ pc' = "scan.merged"
    /\ UNCHANGED <<events, clusters, picked, match, report, again, shuffled, now, filterVars,
                   feeds, adapters, normalized, settled, calls>>

\* const report = correlateEvents(flattened); a TypeError raised in it
\* rejects runInvestigation.
CorrelateFeed ==
    /\ pc = "scan.merged"
    /\ report' = correlateEvents(flattened)
    /\ calls' = calls + 1
    /\ flattened' = eventsAfterCorrelate(flattened)
    /\ pc' = IF report' = Thrown THEN "scan.aborted" ELSE "scan.done"
    /\ UNCHANGED <<events, clusters, picked, match, again, shuffled, now, filterVars,
                   feeds, adapters, logged, normalized, settled>>

ScanNext ==
    \/ StartFetches
    \/ \E a \in 1..3 : FetchReturns(a)
    \/ \E a \in 1..3 : FetchReturnsNothing(a)
    \/ \E a \in 1..3 : FetchRejects(a)
    \/ Merge
    \/ CorrelateFeed

ScanSpec == ScanInit /\ [][ScanNext]_vars

(***************************************************************************)
(* correlateEvents applied to an array, and then to an array holding the   *)
(* same objects in another order.                                          *)
(***************************************************************************)
MaxOrderEvents == 3

\* Events of six timestamps, a minute apart: a timeout, a retry, a restart,
\* a failed deploy, an error and a retry that is an error.
SpreadPool ==
    {Timeout(0), JobRetry(Minute), Restart("warn", 2 * Minute), DeployFailed(3 * Minute),
     Request("error", 4 * Minute), QueueRetry("error", 5 * Minute, "billing-sync")}

\* The pools of the order runs: one with timestamps apart, one with events of
\* the same timestamp.
OrderPools == {SpreadPool, StormPool}

OrderInit ==
    /\ \/ \E pool \in OrderPools : \E n \in 0..MaxOrderEvents : \E protos \in [1..n -> pool] :
             events = InputOf(protos)
       \/ \E protos \in ScenarioA \cup ScenarioC \cup ScenarioE : events = InputOf(protos)
    /\ pc = "ready"
    /\ clusters = <<>>
    /\ picked = 0
    /\ match = Null
    /\ report = Null
    /\ again = Null
    /\ shuffled = <<>>
    /\ now = 0
    /\ query = Undefined
    /\ kept = <<>>
    /\ feeds = <<>>
    /\ adapters = <<>>
    /\ flattened = <<>>
    /\ logged = <<>>
    /\ normalized = <<>>
    /\ settled = <<>>
    /\ calls = 0

\* correlateEvents(shuffled), for an array of the objects of events in any
\* order
CorrelateShuffled ==
    /\ pc = "correlated"
    /\ \E p \in Permutations(1..Len(events)) :
          shuffled' = [i \in 1..Len(events) |-> events[p[i]]]
    /\ again' = correlateEvents(shuffled')
    /\ pc' = "shuffled"
    /\ UNCHANGED <<events, clusters, picked, match, report, now, filterVars, scanVars>>

OrderNext == Correlate \/ CorrelateShuffled

OrderSpec == OrderInit /\ [][OrderNext]_vars

(***************************************************************************)
(* Properties                                                              *)
(***************************************************************************)
\* The positions of the input array.
Positions == 1..Len(events)

\* An event is in a list (as the same object).
InList(event, list) == \E j \in 1..Len(list) : list[j] = event

\* C1: when correlateEvents returns a report, report.timeline is sorted
\* non-decreasing by timestamp and holds every event of the input exactly
\* once, the events outside the returned cluster too.
C1_TimelineSortedPermutation ==
    (pc = "correlated" /\ report.kind = "report") =>
        LET timeline == report.timeline
        IN  /\ \A j \in 1..(Len(timeline) - 1) :
                  timeline[j].timestamp <= timeline[j + 1].timestamp
            /\ Len(timeline) = Len(events)
            /\ \A i \in Positions :
                  Cardinality({j \in 1..Len(timeline) : timeline[j] = events[i]}) = 1

\* C1's case: a report for an input that is not in time order, holds two
\* events of one timestamp and an event outside the returned cluster.
C1_Witness ==
    /\ pc = "correlated"
    /\ report.kind = "report"
    /\ \E i \in Positions, j \in Positions : i < j /\ events[i].timestamp > events[j].timestamp
    /\ \E i \in Positions, j \in Positions : i < j /\ events[i].timestamp = events[j].timestamp
    /\ \E i \in Positions :
          /\ events[i] # report.cluster.triggerEvent
          /\ ~InList(events[i], report.cluster.cascade)

\* C2: the cascade of every cluster is exactly the input events other than
\* the trigger whose timestamp t has trigger.timestamp <= t <=
\* trigger.timestamp + 15 minutes, each once.
C2_CascadeIsWindow ==
    pc = "clustered" =>
        \A n \in 1..Len(clusters) :
            LET trigger == clusters[n].triggerEvent
                cascade == clusters[n].cascade
            IN  /\ \A i \in Positions :
                      InList(events[i], cascade) <=>
                          /\ events[i].id # trigger.id
                          /\ trigger.timestamp <= events[i].timestamp
                          /\ events[i].timestamp <= trigger.timestamp + 900000
                /\ \A j \in 1..Len(cascade) : \E i \in Positions : cascade[j] = events[i]
                /\ \A j \in 1..Len(cascade), k \in 1..Len(cascade) :
                      cascade[j] = cascade[k] => j = k
                /\ ~InList(trigger, cascade)

\* C2's case: a cascade holding an event exactly 15 minutes after its
\* trigger, an event 1 ms later left out of a cascade, and an event 1 ms
\* before a trigger left out of its cascade.
C2_Witness ==
    /\ pc = "clustered"
    /\ \E n \in 1..Len(clusters) : \E j \in 1..Len(clusters[n].cascade) :
          clusters[n].cascade[j].timestamp = clusters[n].triggerEvent.timestamp + 900000
    /\ \E n \in 1..Len(clusters) : \E i \in Positions :
          /\ events[i].timestamp = clusters[n].triggerEvent.timestamp + 900001
          /\ ~InList(events[i], clusters[n].cascade)
    /\ \E n \in 1..Len(clusters) : \E i \in Positions :
          /\ events[i].timestamp = clusters[n].triggerEvent.timestamp - 1
          /\ ~InList(events[i], clusters[n].cascade)

\* C3: buildIncidentClusters gives one cluster per warn or error event of
\* the input and none for an info event, in non-decreasing order of the
\* triggers' timestamps, triggers of one timestamp in their input order.
C3_OneClusterPerTrigger ==
    pc = "clustered" =>
        /\ Len(clusters) =
              Cardinality({i \in Positions : events[i].severity \in {"warn", "error"}})
        /\ \A n \in 1..Len(clusters) :
              /\ clusters[n].triggerEvent.severity \in {"warn", "error"}
              /\ \E i \in Positions : clusters[n].triggerEvent = events[i]
        /\ \A n \in 1..Len(clusters), m \in 1..Len(clusters) :
              n < m =>
                  LET a == clusters[n].triggerEvent
                      b == clusters[m].triggerEvent
                  IN  \/ a.timestamp < b.timestamp
                      \/ (a.timestamp = b.timestamp /\ a.id < b.id)

\* C3's case: two triggers of one timestamp with overlapping windows, a
\* later trigger placed before them in the input, and an info event.
C3_Witness ==
    /\ pc = "clustered"
    /\ Len(clusters) >= 3
    /\ \E n \in 1..Len(clusters), m \in 1..Len(clusters) :
          /\ n < m
          /\ clusters[n].triggerEvent.timestamp = clusters[m].triggerEvent.timestamp
          /\ clusters[n].triggerEvent.severity # clusters[m].triggerEvent.severity
    /\ \E n \in 1..Len(clusters) : \E m \in 1..Len(clusters) :
          n < m /\ clusters[n].triggerEvent.id > clusters[m].triggerEvent.id
    /\ \E i \in Positions : events[i].severity = "info"

\* The cluster handed to matchPattern.
PickedCluster == clusters[picked]

\* What each rule alone says of the cluster handed to matchPattern, in the
\* order SERVERLESS_TIMEOUT_CASCADE, RETRY_STORM, DEPLOY_FAILURE, CRASH_LOOP.
RuleResults ==
    <<matchServerlessTimeoutCascade(PickedCluster), matchRetryStorm(PickedCluster),
      matchDeployFailure(PickedCluster), matchCrashLoop(PickedCluster)>>

RulePatterns == <<"SERVERLESS_TIMEOUT_CASCADE", "RETRY_STORM", "DEPLOY_FAILURE", "CRASH_LOOP">>

\* C4: matchPattern returns the result of the first rule, in the order
\* SERVERLESS_TIMEOUT_CASCADE, RETRY_STORM, DEPLOY_FAILURE, CRASH_LOOP, that
\* fires: a rule's result is returned only if every earlier rule returned
\* no-match, and no-match only if all four rules decline.
C4_LowestRuleWins ==
    pc = "matched" =>
        LET results == RuleResults
        IN  /\ match.kind = "match" =>
                  \E r \in 1..4 :
                      /\ match = results[r]
                      /\ match.patternId = RulePatterns[r]
                      /\ \A q \in 1..(r - 1) : results[q] = Null
            /\ match.kind = "null" => \A r \in 1..4 : results[r] = Null
            /\ \A r \in 1..4 :
                  (results[r].kind = "match" /\ \A q \in 1..(r - 1) : results[q] = Null)
                      => match = results[r]

\* C4's case: a cluster on which the last three rules would all fire, and
\* the result is the retry storm.
C4_Witness ==
    /\ pc = "matched"
    /\ match.kind = "match"
    /\ match.patternId = "RETRY_STORM"
    /\ RuleResults[3].kind = "match"
    /\ RuleResults[4].kind = "match"

\* The least element of a non-empty set of numbers.
Least(S) == CHOOSE n \in S : \A m \in S : n <= m

\* C5: correlateEvents returns the first cluster, in the order of the
\* cluster list, for which matchPattern yields a match, with that match, and
\* returns no-report exactly when no cluster matches any rule.
C5_FirstMatchingCluster ==
    pc = "correlated" =>
        LET clusterList == buildIncidentClusters(events)
            matching == {n \in 1..Len(clusterList) :
                            matchPattern(clusterList[n]).kind = "match"}
        IN  IF matching = {} THEN report = Null
            ELSE /\ report.kind = "report"
                 /\ report.cluster = clusterList[Least(matching)]
                 /\ report.match = matchPattern(clusterList[Least(matching)])

\* C5, for the calls that return: the same, when no rule raises a TypeError
\* (see C16) on a cluster up to the first matching one.
C5_FirstMatchingClusterOfReturningCalls ==
    (pc = "correlated" /\ report # Thrown) => C5_FirstMatchingCluster

\* C5's case among the returning calls: the first cluster matches CRASH_LOOP
\* and is returned, a later one would match SERVERLESS_TIMEOUT_CASCADE.
C5_EarlierClusterWins ==
    /\ pc = "correlated"
    /\ report.kind = "report"
    /\ report.match.patternId = "CRASH_LOOP"
    /\ \E n \in 1..Len(buildIncidentClusters(events)) :
          LET later == matchPattern(buildIncidentClusters(events)[n])
          IN  later.kind = "match" /\ later.patternId = "SERVERLESS_TIMEOUT_CASCADE"

\* The events of the cluster in the order the deploy rule scans them.
ScanOrder(cluster) == <<cluster.triggerEvent>> \o cluster.cascade

\* C6, as claimed: every match of matchPattern has its rootCauseEvent as the
\* first element of its evidence.
C6_EvidenceStartsWithRootCause ==
    (pc = "matched" /\ match.kind = "match") => match.evidence[1] = match.rootCauseEvent

\* C6, amended: a match of SERVERLESS_TIMEOUT_CASCADE, RETRY_STORM or
\* CRASH_LOOP has its rootCauseEvent as the first element of its evidence; the
\* first evidence of a DEPLOY_FAILURE match is the first error event, in scan
\* order, at or after the deploy event's timestamp, which is the deploy event
\* exactly when it is an error and no error scanned before it has its
\* timestamp.
C6_EvidenceStartsWithRootCauseExceptDeploy ==
    (pc = "matched" /\ match.kind = "match") =>
        LET root == match.rootCauseEvent
            scan == ScanOrder(PickedCluster)
            at == CHOOSE i \in 1..Len(scan) : scan[i] = root
            firstError == Least({i \in 1..Len(scan) :
                scan[i].severity = "error" /\ scan[i].timestamp >= root.timestamp})
        IN  /\ Len(match.evidence) >= 1
            /\ match.patternId # "DEPLOY_FAILURE" => match.evidence[1] = root
            /\ match.patternId = "DEPLOY_FAILURE" =>
                  /\ match.evidence[1] = scan[firstError]
                  /\ (match.evidence[1] = root) <=>
                        /\ root.severity = "error"
                        /\ \A i \in 1..(at - 1) :
                              ~(scan[i].severity = "error" /\ scan[i].timestamp = root.timestamp)

\* C6's case: a retry storm whose root cause is not the trigger and whose
\* evidence holds more than the root cause.
C6_Witness ==
    /\ pc = "matched"
    /\ match.kind = "match"
    /\ match.patternId = "RETRY_STORM"
    /\ match.rootCauseEvent # PickedCluster.triggerEvent
    /\ Len(match.evidence) >= 3

\* The input is scenario B: five queue.retry events of job billing-sync, no
\* two of them more than 10 minutes apart.
IsScenarioB ==
    /\ Len(events) = 5
    /\ \A i \in Positions :
          /\ events[i].type = "queue.retry"
          /\ events[i].metadata = [NoMetadata EXCEPT !.jobName = Str("billing-sync")]
    /\ \A i \in Positions, j \in Positions :
          events[i].timestamp - events[j].timestamp <= 10 * 60 * 1000

\* The positions of the input events, other than i, at or after events[i].
AtOrAfter(i) ==
    {j \in Positions \ {i} : events[j].timestamp >= events[i].timestamp}

\* C7, as claimed: on scenario B correlateEvents returns a RETRY_STORM match
\* with confidence 0.74, retries = 5 and jobs = ["billing-sync"].
C7_ScenarioBFiveRetries ==
    (pc = "correlated" /\ IsScenarioB) =>
        /\ report.kind = "report"
        /\ report.match.patternId = "RETRY_STORM"
        /\ report.match.confidence = 74
        /\ report.match.metadata.retries = 5
        /\ report.match.metadata.jobs = <<"billing-sync">>

\* C7, amended: on scenario B correlateEvents returns a RETRY_STORM match
\* with confidence 0.74 and jobs = ["billing-sync"] exactly when one of the
\* five events is a warn or error event with at least three of the other
\* four at or after its timestamp, and no report otherwise; retries counts
\* the cascade of the returned trigger, which does not hold the trigger: it
\* is 3 or 4, never 5.
C7_ScenarioBCascadeRetries ==
    (pc = "correlated" /\ IsScenarioB) =>
        LET able == {i \in Positions :
                        /\ events[i].severity \in {"warn", "error"}
                        /\ Cardinality(AtOrAfter(i)) >= 3}
        IN  IF able = {} THEN report = Null
            ELSE /\ report.kind = "report"
                 /\ report.match.patternId = "RETRY_STORM"
                 /\ report.match.confidence = 74
                 /\ report.match.metadata.jobs = <<"billing-sync">>
                 /\ report.cluster.triggerEvent.id \in able
                 /\ report.match.metadata.retries =
                        Cardinality(AtOrAfter(report.cluster.triggerEvent.id))
                 /\ report.match.metadata.retries \in {3, 4}

\* C7's case: scenario B with the earliest event as the trigger: retries = 4.
C7_Witness ==
    /\ pc = "correlated"
    /\ IsScenarioB
    /\ report.kind = "report"
    /\ report.match.metadata.retries = 4
    /\ \A i \in Positions : report.cluster.triggerEvent.timestamp <= events[i].timestamp
    /\ \E i \in Positions : report.cluster.triggerEvent.timestamp < events[i].timestamp

\* The positions of the restart events of scenario E.
RestartPositions == {i \in Positions : events[i].type = "process.restart"}

\* The input is scenario E: two restart events one minute apart, and
\* otherwise only plain requests, which no rule looks for.
IsScenarioE ==
    /\ Cardinality(RestartPositions) = 2
    /\ \E i \in RestartPositions, j \in RestartPositions :
          events[j].timestamp = events[i].timestamp + 60 * 1000
    /\ \A i \in Positions :
          /\ events[i].metadata = NoMetadata
          /\ i \notin RestartPositions => events[i].type = "http.request"

IsScenarioC ==
    /\ Len(events) = 4
    /\ \A i \in Positions : events[i].metadata = NoMetadata
    /\ \E d \in Positions :
          /\ events[d].type = "deploy.started"
          /\ events[d].severity # "error"
          /\ \A i \in Positions \ {d} :
                /\ events[i].severity = "error"
                /\ events[i].type \in {"http.request", "lambda.timeout"}
          /\ \A offset \in {60 * 1000, 3 * 60 * 1000, 0 - 60 * 1000} :
                \E i \in Positions \ {d} :
                    events[i].timestamp = events[d].timestamp + offset

\* The input event at the given distance from the deploy event of scenario C.
EventAfterDeploy(offset) ==
    LET d == CHOOSE d \in Positions : events[d].type = "deploy.started"
    IN  events[CHOOSE i \in Positions : events[i].timestamp = events[d].timestamp + offset]

\* C9: the evidence of a DEPLOY_FAILURE match is exactly the error events of
\* trigger + cascade, in scan order, whose timestamp is at or after that of
\* the deploy event, the first event of the scan whose type contains
\* "deploy"; an earlier error is never in it. On scenario C the result is
\* DEPLOY_FAILURE with the two errors after the deploy as its evidence.
C9_DeployFailureEvidence ==
    /\ (pc = "matched" /\ match.kind = "match" /\ match.patternId = "DEPLOY_FAILURE") =>
          LET scan == ScanOrder(PickedCluster)
              deploys == {i \in 1..Len(scan) :
                             scan[i].type \in {"deploy.started", "Deploy.Failed", "deploy.restart"}}
              deployEvent == scan[Least(deploys)]
          IN  /\ deploys # {}
              /\ match.rootCauseEvent = deployEvent
              /\ match.evidence =
                    SelectSeq(scan, LAMBDA event :
                        event.severity = "error" /\ event.timestamp >= deployEvent.timestamp)
              /\ \A k \in 1..Len(match.evidence) :
                    match.evidence[k].timestamp >= deployEvent.timestamp
    /\ (pc = "correlated" /\ IsScenarioC) =>
          /\ report.kind = "report"
          /\ report.match.patternId = "DEPLOY_FAILURE"
          /\ report.match.rootCauseEvent = EventAfterDeploy(0)
          /\ report.match.evidence =
                <<EventAfterDeploy(60 * 1000), EventAfterDeploy(3 * 60 * 1000)>>

\* C9's case: scenario C, given out of time order, with its report.
C9_Witness ==
    /\ pc = "correlated"
    /\ IsScenarioC
    /\ report.kind = "report"
    /\ events[1].type = "deploy.started"
    /\ events[4] = EventAfterDeploy(0 - 60 * 1000)

\* C9's case in a cluster: an error before the deploy event is left out, an
\* error of the deploy event's timestamp scanned before it is kept.
C9_WitnessCluster ==
    /\ pc = "matched"
    /\ match.kind = "match"
    /\ match.patternId = "DEPLOY_FAILURE"
    /\ PickedCluster.triggerEvent.severity = "error"
    /\ PickedCluster.triggerEvent.timestamp < match.rootCauseEvent.timestamp
    /\ match.evidence[1] # match.rootCauseEvent
    /\ match.evidence[1].timestamp = match.rootCauseEvent.timestamp

\* What the rules call a retry, a restart and an external 429, read off the
\* events of the inputs.
RetryEvent(event) ==
    event.type \in {"job.retry", "queue.retry"} \/ event.metadata.retry = Bool(TRUE)

RestartEvent(event) ==
    event.type \in {"process.restart", "Duplicate Execution", "deploy.restart"}

RateLimitEvent(event) ==
    \/ event.metadata.status = Num(429)
    \/ event.metadata.statusCode \in {Num(429), Num(4290), Str("429")}

\* The input is scenario A: an error lambda.timeout, a job.retry two minutes
\* later and a process.restart four minutes later.
IsScenarioA ==
    /\ Len(events) = 3
    /\ \E a \in Positions, b \in Positions, c \in Positions :
          /\ events[a].type = "lambda.timeout" /\ events[a].severity = "error"
          /\ events[b].type = "job.retry"
          /\ events[b].timestamp = events[a].timestamp + 2 * 60 * 1000
          /\ events[c].type = "process.restart"
          /\ events[c].timestamp = events[a].timestamp + 4 * 60 * 1000

\* C10: a cluster whose trigger type contains "timeout" in any letter case
\* and whose cascade holds a retry matches SERVERLESS_TIMEOUT_CASCADE with
\* the trigger as root cause, confidence 0.87 if and only if the cascade
\* holds a restart and 0.82 otherwise, and as evidence the trigger followed
\* by the retries, restarts and external 429s of the cascade, in cascade
\* order. On scenario A the confidence is 0.87 and the evidence has 3 events.
C10_TimeoutCascade ==
    /\ pc = "matched" =>
          LET trigger == PickedCluster.triggerEvent
              cascade == PickedCluster.cascade
          IN  (/\ trigger.type \in {"lambda.timeout", "Lambda.TIMEOUT"}
               /\ \E j \in 1..Len(cascade) : RetryEvent(cascade[j])) =>
                  /\ match.kind = "match"
                  /\ match.patternId = "SERVERLESS_TIMEOUT_CASCADE"
                  /\ match.rootCauseEvent = trigger
                  /\ (match.confidence = 87) <=>
                        \E j \in 1..Len(cascade) : RestartEvent(cascade[j])
                  /\ match.confidence \in {82, 87}
                  /\ match.evidence =
                        <<trigger>> \o SelectSeq(cascade, LAMBDA event :
                            RetryEvent(event) \/ RestartEvent(event) \/ RateLimitEvent(event))
    /\ (pc = "correlated" /\ IsScenarioA) =>
          /\ report.kind = "report"
          /\ report.match.patternId = "SERVERLESS_TIMEOUT_CASCADE"
          /\ report.match.confidence = 87
          /\ Len(report.match.evidence) = 3

\* C10's case: a trigger of type Lambda.TIMEOUT whose cascade holds a retry,
\* a restart and an event that is none of the three kinds of evidence.
C10_Witness ==
    /\ pc = "matched"
    /\ match.kind = "match"
    /\ PickedCluster.triggerEvent.type = "Lambda.TIMEOUT"
    /\ match.confidence = 87
    /\ Len(match.evidence) = 3
    /\ Len(PickedCluster.cascade) = 3

\* C10's scenario: scenario A, with its report.
C10_WitnessScenarioA ==
    /\ pc = "correlated"
    /\ IsScenarioA
    /\ report.kind = "report"
    /\ events[1].type = "process.restart"
\* C11: for an input in which no event has severity warn or error, the empty
\* input too, correlateEvents returns no-report, whatever the types and the
\* metadata of the events are.
C11_NoTriggerNoReport ==
    (pc = "correlated" /\ \A i \in Positions : events[i].severity \notin {"warn", "error"})
        => report = Null

\* C11's case: an input of four info events that holds a timeout followed by
\* a retry and a retry of the job "constructor", and the call has returned
\* no-report.
C11_Witness ==
    /\ pc = "correlated"
    /\ report = Null
    /\ Len(events) = 4
    /\ \A i \in Positions : events[i].severity = "info"
    /\ \E i \in Positions, j \in Positions :
          /\ events[i].type = "lambda.timeout"
          /\ RetryEvent(events[j])
          /\ events[i].timestamp < events[j].timestamp
    /\ \E i \in Positions : events[i].metadata.jobName = Str("constructor")

\* C11's case for the empty input.
C11_WitnessEmpty == pc = "correlated" /\ events = <<>> /\ report = Null

AlphaNumeric ==
    TermChars \cup {UpperCaseLetters[j] : j \in 1..26}

\* The characters of the query, none when it is absent.
QueryChars == IF query = Undefined THEN <<>> ELSE query.chars

\* The query holds no run of three letters or digits: it is absent, empty,
\* blank, or made of shorter fragments only.
NoConstraint ==
    \A i \in 1..(Len(QueryChars) - 2) :
        \E j \in i..(i + 2) : QueryChars[j] \notin AlphaNumeric

\* C13: filterEventsByQuery returns the input events unchanged and in the
\* same order when the query is absent, empty, blank or holds no fragment of
\* three or more letters and digits.
C13_NoConstraintNoChange ==
    (pc = "filtered" /\ NoConstraint) => kept = events

\* C13's case: a query of short fragments and blanks only, given with two
\* events that a query with a term would tell apart.
C13_Witness ==
    /\ pc = "filtered"
    /\ query # Undefined
    /\ \E i \in 1..Len(QueryChars) : QueryChars[i] \in AlphaNumeric
    /\ \E i \in 1..Len(QueryChars) : QueryChars[i] = " "
    /\ NoConstraint
    /\ Len(events) = 2
    /\ events[1].type # events[2].type
    /\ kept = events

\* C13's case for a blank query and for an absent one.
C13_WitnessBlank ==
    /\ pc = "filtered"
    /\ Len(events) = 2
    /\ kept = events
    /\ (query = Undefined \/ (Len(QueryChars) = 2 /\ \A i \in 1..2 : QueryChars[i] = " "))

\* The terms of the query, read off its characters: the runs of letters and
\* digits that are three or more long and cannot be made longer, lower-cased,
\* in the order they stand in the query.
QueryTermsAt ==
    LET q == QueryChars
        starts == {i \in 1..Len(q) :
                      /\ q[i] \in AlphaNumeric
                      /\ (i = 1 \/ q[i - 1] \notin AlphaNumeric)}
        endOf(i) == CHOOSE j \in i..Len(q) :
                      /\ \A k \in i..j : q[k] \in AlphaNumeric
                      /\ (j = Len(q) \/ q[j + 1] \notin AlphaNumeric)
    IN  {i \in starts : endOf(i) - i + 1 >= 3}

QueryTermOf(i) ==
    LET q == QueryChars
        j == CHOOSE j \in i..Len(q) :
                /\ \A k \in i..j : q[k] \in AlphaNumeric
                /\ (j = Len(q) \/ q[j + 1] \notin AlphaNumeric)
    IN  toLowerCase(SubSeq(q, i, j))

\* The words an event of the inputs holds, those of its type, source,
\* severity and metadata, lower-cased and joined by blanks.
Haystack(event) == serializeEvent(event)

\* C14, as claimed: for a query with at least one term, an event is kept if
\* and only if its haystack holds at least min(2, number of terms) distinct
\* terms of the query; a query that says one word twice is not met by an
\* event that holds only that word.
C14_DistinctTerms ==
    (pc = "filtered" /\ QueryTermsAt # {}) =>
        LET required == IF Cardinality(QueryTermsAt) < 2 THEN 1 ELSE 2
            found(event) == {QueryTermOf(i) : i \in
                                {i \in QueryTermsAt : includes(Haystack(event), QueryTermOf(i))}}
        IN  kept = SelectSeq(events, LAMBDA event : Cardinality(found(event)) >= required)

\* C14, as the code has it: the terms found are counted with their
\* repetitions, so a term given twice counts twice.
C14_RepeatedTermsCount ==
    (pc = "filtered" /\ QueryTermsAt # {}) =>
        LET required == IF Cardinality(QueryTermsAt) < 2 THEN 1 ELSE 2
            found(event) == {i \in QueryTermsAt : includes(Haystack(event), QueryTermOf(i))}
        IN  kept = SelectSeq(events, LAMBDA event : Cardinality(found(event)) >= required)

\* C14's case: the query "error error" and an event that holds the word
\* error and no other term of the query, which is kept.
C14_RepeatedTermKept ==
    /\ pc = "filtered"
    /\ Cardinality(QueryTermsAt) = 2
    /\ \A i \in QueryTermsAt : QueryTermOf(i) = <<"e", "r", "r", "o", "r">>
    /\ Len(events) = 2
    /\ Len(kept) = 1
    /\ kept[1].severity = "error"
\* The connectors whose fetch has failed.
FailedAdapters == {a \in DOMAIN adapters : adapters[a] = Rejected}

\* What the connectors that succeeded returned, in the order of the
\* connectors array.
ReturnedByOthers ==
    LET valueOf(a) == IF adapters[a].status = "fulfilled" THEN adapters[a].value ELSE <<>>
    IN  valueOf(1) \o valueOf(2) \o valueOf(3)

\* What holds of the merged feed when a connector's fetch has failed.
FeedOfTheOthers ==
    FailedAdapters # {} =>
        /\ pc \in {"scan.merged", "scan.done", "scan.aborted"} =>
              /\ flattened = ReturnedByOthers
              /\ \A a \in 1..3 : adapters[a] = Rejected <=> InList(connectors[a], logged)
        /\ pc = "scan.aborted" => report = Thrown
        /\ pc = "scan.done" => report = correlateEvents(ReturnedByOthers)

\* C15: when a connector's fetch fails, the scan goes on: the wait for the
\* connectors ends in the merge and in nothing else, the merged feed is the
\* concatenation of what exactly the connectors that succeeded returned,
\* correlateEvents is called with it, and the run ends early only by an error
\* raised inside correlateEvents itself.
C15_FailedAdapterDoesNotAbort ==
    /\ []FeedOfTheOthers
    /\ [][(pc = "scan.awaiting" /\ pc' # "scan.awaiting") =>
              (pc' = "scan.merged" /\ flattened' = ReturnedByOthers)]_vars
    /\ [][(pc = "scan.merged" /\ pc' # "scan.merged") =>
              (report' = correlateEvents(flattened) /\ flattened' = flattened)]_vars

\* C15's case: the datadog connector has failed, and the report is drawn from
\* the events of the two others: the trigger of the cluster came from one
\* connector and its cascade from the other.
C15_Witness ==
    /\ pc = "scan.done"
    /\ FailedAdapters = {3}
    /\ Len(feeds[3]) > 0
    /\ report.kind = "report"
    /\ report.cluster.triggerEvent.source = "trigger"
    /\ Len(report.cluster.cascade) = 2
    /\ \A j \in 1..2 : report.cluster.cascade[j].source = "local"

\* C15's case with two connectors failed.
C15_WitnessTwoFailed ==
    /\ pc = "scan.done"
    /\ FailedAdapters = {1, 3}
    /\ Len(flattened) > 0
    /\ flattened = adapters[2].value
\* C16, as claimed: correlateEvents completes on every collection of
\* well-formed events, whatever string jobName holds, and so does matchPattern
\* on every cluster: no call raises an error.
C16_NeverRaises ==
    /\ pc = "correlated" => report # Thrown
    /\ pc = "matched" => match # Thrown

\* The job names of the input events that Object.prototype defines.
InheritedJobNames ==
    {i \in Positions :
        /\ events[i].metadata.jobName.t = "str"
        /\ events[i].metadata.jobName.s \in
              {"constructor", "toString", "valueOf", "hasOwnProperty", "__proto__"}}

\* C16, for the inputs whose job names are not properties of
\* Object.prototype: no call raises an error, with or without the keys
\* retry, status, statusCode and jobName.
C16_RaisesOnlyOnInheritedNames ==
    InheritedJobNames = {} => C16_NeverRaises

\* C16's case: a call of correlateEvents that raised the error; three
\* retries of the job "constructor" are in the cascade of an error event.
C16_Raised ==
    /\ pc = "correlated"
    /\ report = Thrown
    /\ Len(events) = 4
    /\ Cardinality(InheritedJobNames) = 3

\* The key matchRetryStorm groups a retry under, read off the event.
JobOf(event) ==
    IF event.metadata.jobName = Undefined THEN "unknown" ELSE event.metadata.jobName.s

\* The retries of the cascade of the cluster handed to matchPattern.
CascadeRetries == SelectSeq(PickedCluster.cascade, RetryEvent)

\* Rule 1 declines on the cluster handed to matchPattern.
TimeoutRuleDeclines ==
    ~(/\ PickedCluster.triggerEvent.type \in {"lambda.timeout", "Lambda.TIMEOUT"}
      /\ Len(CascadeRetries) >= 1)

\* Rule 2 is to fire on the cluster handed to matchPattern.
RetryStormDue ==
    /\ TimeoutRuleDeclines
    /\ Len(CascadeRetries) >= 3
    /\ \E j \in 1..Len(CascadeRetries) :
          Cardinality({k \in 1..Len(CascadeRetries) :
                          JobOf(CascadeRetries[k]) = JobOf(CascadeRetries[j])}) >= 3

\* What a RETRY_STORM match is to hold.
RetryStormAsClaimed ==
    /\ match.rootCauseEvent = CascadeRetries[1]
    /\ \A k \in 1..Len(PickedCluster.cascade) :
          CascadeRetries[1].timestamp <= PickedCluster.cascade[k].timestamp
              \/ ~RetryEvent(PickedCluster.cascade[k])
    /\ match.evidence = SubSeq(CascadeRetries, 1,
                               IF Len(CascadeRetries) < 5 THEN Len(CascadeRetries) ELSE 5)
    /\ match.confidence = 74
    /\ match.metadata.retries = Len(CascadeRetries)

\* C17, as claimed: RETRY_STORM fires on a cluster if and only if rule 1
\* declined, the cascade has at least 3 retries and some jobName ("unknown"
\* for an absent one) is carried by at least 3 of them; the match has the
\* earliest cascade retry as root cause, the first 5 cascade retries as
\* evidence, confidence 0.74 and retries = the number of cascade retries.
C17_RetryStorm ==
    pc = "matched" =>
        /\ (match.kind = "match" /\ match.patternId = "RETRY_STORM") <=> RetryStormDue
        /\ (match.kind = "match" /\ match.patternId = "RETRY_STORM") => RetryStormAsClaimed

\* C17, for the calls of matchPattern that return: the same.
C17_RetryStormOfReturningCalls ==
    (pc = "matched" /\ match # Thrown) => C17_RetryStorm

\* C17's case: a retry storm of six cascade retries, of which five are shown.
C17_SixRetries ==
    /\ pc = "matched"
    /\ match.kind = "match"
    /\ match.patternId = "RETRY_STORM"
    /\ match.metadata.retries = 6
    /\ Len(match.evidence) = 5
    /\ Len(match.metadata.jobs) >= 2

\* C17's case: six cascade retries of which no job has three, and no match.
C17_SpreadRetries ==
    /\ pc = "matched"
    /\ Len(CascadeRetries) = 6
    /\ ~RetryStormDue
    /\ match = Null

\* C17's failing case: the cluster is due a retry storm, and the call raised.
C17_RaisedInsteadOfMatch ==
    /\ pc = "matched"
    /\ RetryStormDue
    /\ match = Thrown

\* The types that hold "deploy" in some letter case.
DeployTypes == {"deploy.started", "Deploy.Failed", "deploy.restart"}

\* C18: the deploy-failure rule takes as root cause the first event, scanning
\* the trigger and then the cascade, whose type contains "deploy" in any
\* letter case; it returns no-match when there is none or when no error event
\* of the cluster is at or after it in time, and otherwise matches with
\* confidence 0.72 and errorCount equal to the length of the evidence.
C18_DeployRule ==
    pc = "matched" =>
        LET scan == ScanOrder(PickedCluster)
            deploys == {i \in 1..Len(scan) : scan[i].type \in DeployTypes}
            result == matchDeployFailure(PickedCluster)
        IN  IF deploys = {} THEN result = Null
            ELSE LET deployEvent == scan[Least(deploys)]
                     errors == {i \in 1..Len(scan) :
                                   /\ scan[i].severity = "error"
                                   /\ scan[i].timestamp >= deployEvent.timestamp}
                 IN  IF errors = {} THEN result = Null
                     ELSE /\ result.kind = "match"
                          /\ result.patternId = "DEPLOY_FAILURE"
                          /\ result.rootCauseEvent = deployEvent
                          /\ result.confidence = 72
                          /\ result.metadata.errorCount = Len(result.evidence)
                          /\ Len(result.evidence) = Cardinality(errors)

\* C18's case: a cluster with two deploy events; the first of the scan, of
\* type Deploy.Failed, is the root cause of the match.
C18_Witness ==
    /\ pc = "matched"
    /\ match.kind = "match"
    /\ match.patternId = "DEPLOY_FAILURE"
    /\ match.rootCauseEvent.type = "Deploy.Failed"
    /\ match.rootCauseEvent # PickedCluster.triggerEvent
    /\ \E j \in 1..Len(PickedCluster.cascade) :
          PickedCluster.cascade[j].type = "deploy.started"

\* C18's case of no match: a deploy event and no error at or after it.
C18_WitnessNoError ==
    /\ pc = "matched"
    /\ matchDeployFailure(PickedCluster) = Null
    /\ \E j \in 1..Len(PickedCluster.cascade) : PickedCluster.cascade[j].type \in DeployTypes
    /\ PickedCluster.triggerEvent.severity = "error"

\* The restarts of the cascade of the cluster handed to matchPattern.
CascadeRestarts == SelectSeq(PickedCluster.cascade, RestartEvent)

\* C19: CRASH_LOOP fires on a cluster if and only if rules 1 to 3 declined
\* and the cascade holds at least 2 restart events; the match has the first
\* cascade restart as root cause, the first 3 cascade restarts as evidence,
\* confidence 0.66 and restartCount = the number of cascade restarts.
C19_CrashLoop ==
    pc = "matched" =>
        LET results == RuleResults
            fired == match.kind = "match" /\ match.patternId = "CRASH_LOOP"
        IN  /\ fired <=> /\ \A r \in 1..3 : results[r] = Null
                         /\ Len(CascadeRestarts) >= 2
            /\ fired =>
                  /\ match.rootCauseEvent = CascadeRestarts[1]
                  /\ match.evidence = SubSeq(CascadeRestarts, 1,
                        IF Len(CascadeRestarts) < 3 THEN Len(CascadeRestarts) ELSE 3)
                  /\ match.confidence = 66
                  /\ match.metadata.restartCount = Len(CascadeRestarts)

\* C19's case: a crash loop of four cascade restarts of both kinds, of which
\* three are shown.
C19_Witness ==
    /\ pc = "matched"
    /\ match.kind = "match"
    /\ match.patternId = "CRASH_LOOP"
    /\ match.metadata.restartCount = 4
    /\ Len(match.evidence) = 3
    /\ \E j \in 1..4 : PickedCluster.cascade[j].type = "Duplicate Execution"
    /\ \E j \in 1..4 : PickedCluster.cascade[j].type = "process.restart"

\* The latest timestamp among the events of a non-empty list.
Latest(list) ==
    CHOOSE t \in {list[j].timestamp : j \in 1..Len(list)} :
        \A j \in 1..Len(list) : list[j].timestamp <= t

\* C20: in every cluster windowStart is the trigger's timestamp and windowEnd
\* the timestamp of the last, and latest, cascade event, or the trigger's
\* timestamp when the cascade is empty; windowStart <= windowEnd <=
\* windowStart + 15 minutes, and the cascade is in non-decreasing order of
\* timestamps.
C20_Window ==
    pc = "clustered" =>
        \A n \in 1..Len(clusters) :
            LET cluster == clusters[n]
                cascade == cluster.cascade
            IN  /\ cluster.windowStart = cluster.triggerEvent.timestamp
                /\ Len(cascade) = 0 => cluster.windowEnd = cluster.windowStart
                /\ Len(cascade) > 0 =>
                      /\ cluster.windowEnd = cascade[Len(cascade)].timestamp
                      /\ cluster.windowEnd = Latest(cascade)
                /\ cluster.windowStart <= cluster.windowEnd
                /\ cluster.windowEnd <= cluster.windowStart + 15 * 60 * 1000
                /\ \A j \in 1..(Len(cascade) - 1) :
                      cascade[j].timestamp <= cascade[j + 1].timestamp

\* C20's case: a trigger with no other event in its window, though the
\* input holds other events, and a cluster whose window is 15 minutes long,
\* its cascade holding events of two timestamps.
C20_Witness ==
    /\ pc = "clustered"
    /\ Len(events) >= 3
    /\ \E n \in 1..Len(clusters) :
          /\ Len(clusters[n].cascade) = 0
          /\ clusters[n].windowEnd = clusters[n].windowStart
    /\ \E n \in 1..Len(clusters) :
          /\ clusters[n].windowEnd = clusters[n].windowStart + 15 * 60 * 1000
          /\ clusters[n].cascade[1].timestamp < clusters[n].windowEnd
\* C21: what filterEventsByQuery returns is a subsequence of its input: every
\* returned event is an input event as it was given, none is returned twice,
\* and the returned events stand in the order they have in the input.
C21_KeptIsSubsequence ==
    pc = "filtered" =>
        /\ Len(kept) <= Len(events)
        /\ \A j \in 1..Len(kept) :
              \E i \in Positions : kept[j] = events[i] /\ kept[j].id = i
        /\ \A j \in 1..Len(kept), k \in 1..Len(kept) :
              j < k => kept[j].id < kept[k].id

\* C21's case: a query with a term that both events of the input hold, so
\* that two events are kept and their order shows.
C21_Witness ==
    /\ pc = "filtered"
    /\ QueryTermsAt # {}
    /\ Len(events) = 2
    /\ events[1].type # events[2].type
    /\ kept = events

\* C21's case with an event left out: the second of two events is kept alone.
C21_WitnessDropped ==
    /\ pc = "filtered"
    /\ QueryTermsAt # {}
    /\ Len(events) = 2
    /\ kept = <<events[2]>>
C22_WitnessClusters ==
    /\ pc = "clustered"
    /\ \E i \in Positions, j \in Positions : i < j /\ events[i].timestamp > events[j].timestamp
    /\ Len(clusters) >= 2
\* The confidence of each rule, in hundredths, in the order of RulePatterns;
\* the first rule has two, with a restart in the cascade and without.
RuleConfidences == <<{87, 82}, {74}, {72}, {66}>>

\* What the n-th cluster gets from each rule alone.
RuleResultsOf(n) ==
    <<matchServerlessTimeoutCascade(clusters[n]), matchRetryStorm(clusters[n]),
      matchDeployFailure(clusters[n]), matchCrashLoop(clusters[n])>>

\* C23: the confidence of a match is a constant of its rule: 0.87 for
\* SERVERLESS_TIMEOUT_CASCADE with a restart in the cascade and 0.82 without,
\* 0.74 for RETRY_STORM, 0.72 for DEPLOY_FAILURE, 0.66 for CRASH_LOOP, however
\* many events the match counts; it lies in [0, 1], and of two matches the
\* one of the earlier rule has the strictly higher confidence.
C23_ConfidenceOfRule ==
    pc = "matched" =>
        /\ \A r \in 1..4 :
              RuleResults[r].kind = "match" =>
                  LET confidence == RuleResults[r].confidence
                      restartSeen == \E j \in 1..Len(PickedCluster.cascade) :
                                         RestartEvent(PickedCluster.cascade[j])
                  IN  /\ RuleResults[r].patternId = RulePatterns[r]
                      /\ confidence \in RuleConfidences[r]
                      /\ r = 1 => (confidence = 87 <=> restartSeen)
                      /\ 0 <= confidence /\ confidence <= 100
        /\ match.kind = "match" =>
              \E r \in 1..4 : /\ match.patternId = RulePatterns[r]
                              /\ match.confidence \in RuleConfidences[r]
        /\ \A n \in 1..Len(clusters) :
              LET own == RuleResults
                  other == RuleResultsOf(n)
              IN  \A r \in 1..4, q \in 1..4 :
                      (r < q /\ own[r].kind = "match" /\ other[q].kind = "match")
                          => own[r].confidence > other[q].confidence

\* C23's case: a crash loop of four restarts, of which three are shown, next
\* to a cluster of the same input with fewer restarts.
C23_Witness ==
    /\ pc = "matched"
    /\ match.kind = "match"
    /\ match.patternId = "CRASH_LOOP"
    /\ match.metadata.restartCount = 4
    /\ match.confidence = 66

\* C23's case for the first rule, with a restart in the cascade and several
\* retries.
C23_WitnessRestartSeen ==
    /\ pc = "matched"
    /\ match.kind = "match"
    /\ match.patternId = "SERVERLESS_TIMEOUT_CASCADE"
    /\ match.metadata.retryCount >= 2
    /\ match.metadata.restartDetected
    /\ match.confidence = 87

\* C23's case for the first rule without a restart, on a cluster on which
\* the retry storm would fire too.
C23_WitnessNoRestart ==
    /\ pc = "matched"
    /\ match.kind = "match"
    /\ match.patternId = "SERVERLESS_TIMEOUT_CASCADE"
    /\ ~match.metadata.restartDetected
    /\ match.confidence = 82
    /\ RuleResults[2].kind = "match"
\* The unfiltered results of the connectors that delivered a result, one
\* after the other in the order of the connectors array.
NormalizedOfAll ==
    LET resultOf(a) == IF adapters[a].status = "fulfilled" THEN normalized[a] ELSE <<>>
    IN  resultOf(1) \o resultOf(2) \o resultOf(3)

\* C24: the events runInvestigation hands to correlateEvents have each passed
\* filterEventsByQuery for the query in their connector; the merged feed is
\* filterEventsByQuery applied to the unfiltered results of the connectors
\* that delivered, one after the other; and correlateEvents filters no further: it is called with the
\* merged feed and its timeline holds every event of it.
C24_MergedFeedIsFiltered ==
    /\ [](pc \in {"scan.merged", "scan.done", "scan.aborted"} =>
              /\ flattened = filterEventsByQuery(NormalizedOfAll, query)
              /\ \A j \in 1..Len(flattened) :
                    /\ filterEventsByQuery(<<flattened[j]>>, query) = <<flattened[j]>>
                    /\ \E a \in 1..3 : /\ adapters[a].status = "fulfilled"
                                       /\ InList(flattened[j], adapters[a].value)
                                       /\ InList(flattened[j], normalized[a]))
    /\ [][pc = "scan.merged" =>
              /\ report' = correlateEvents(flattened)
              /\ report'.kind = "report" => Len(report'.timeline) = Len(flattened)]_vars

\* C24's case: a query with a term, two connectors that each hold an event
\* the query keeps and an event it drops, and a report on the merged feed.
C24_Witness ==
    /\ pc = "scan.done"
    /\ query # Undefined
    /\ report.kind = "report"
    /\ \E a \in 1..3, b \in 1..3 :
          /\ a # b
          /\ adapters[a].status = "fulfilled" /\ adapters[b].status = "fulfilled"
          /\ 0 < Len(adapters[a].value) /\ Len(adapters[a].value) < Len(normalized[a])
          /\ 0 < Len(adapters[b].value) /\ Len(adapters[b].value) < Len(normalized[b])
    /\ Len(flattened) < Len(NormalizedOfAll)
\* The input holds n events and nothing else: restarts of severity warn or
\* error.
OnlyRestarts(n) ==
    /\ Len(events) = n
    /\ \A i \in Positions : RestartEvent(events[i]) /\ events[i].severity \in {"warn", "error"}

\* The input holds n events and nothing else: retries of one job, of
\* severity warn or error.
OnlyRetriesOfOneJob(n) ==
    /\ Len(events) = n
    /\ \A i \in Positions : RetryEvent(events[i]) /\ events[i].severity \in {"warn", "error"}
    /\ \A i \in Positions, j \in Positions : JobOf(events[i]) = JobOf(events[j])

\* The rules and the trigger: RETRY_STORM and CRASH_LOOP count the cascade
\* only and name a cascade event, never the trigger, as the root cause;
\* SERVERLESS_TIMEOUT_CASCADE names the trigger; and three warn or error
\* retries of one job, alone, give no RETRY_STORM.
CascadeOnly ==
    /\ pc = "matched" =>
          LET trigger == PickedCluster.triggerEvent
              cascade == PickedCluster.cascade
          IN  /\ RuleResults[1].kind = "match" => RuleResults[1].rootCauseEvent = trigger
              /\ RuleResults[2].kind = "match" =>
                    /\ RuleResults[2].rootCauseEvent # trigger
                    /\ InList(RuleResults[2].rootCauseEvent, cascade)
                    /\ ~InList(trigger, RuleResults[2].evidence)
                    /\ RuleResults[2].metadata.retries = Len(CascadeRetries)
                    /\ Len(CascadeRetries) >= 3
              /\ RuleResults[4].kind = "match" =>
                    /\ RuleResults[4].rootCauseEvent # trigger
                    /\ InList(RuleResults[4].rootCauseEvent, cascade)
                    /\ ~InList(trigger, RuleResults[4].evidence)
                    /\ RuleResults[4].metadata.restartCount = Len(CascadeRestarts)
                    /\ Len(CascadeRestarts) >= 2
    /\ (pc = "correlated" /\ OnlyRetriesOfOneJob(3)) =>
          (report.kind = "report" => report.match.patternId # "RETRY_STORM")

C25_WitnessTwoRestarts ==
    /\ pc = "correlated"
    /\ OnlyRestarts(2)
    /\ \A i \in Positions : events[i].type = "process.restart"
    /\ events[1].timestamp # events[2].timestamp
    /\ report = Null

\* C25's case: three warn or error retries of one job and nothing else: no
\* report.
C25_WitnessThreeRetries ==
    /\ pc = "correlated"
    /\ OnlyRetriesOfOneJob(3)
    /\ report = Null

\* C25's case against the claim: two restart events, one of them the restart
\* of a deployment of severity error, give a DEPLOY_FAILURE report.
C25_WitnessDeployRestart ==
    /\ pc = "correlated"
    /\ OnlyRestarts(2)
    /\ report.kind = "report"
    /\ report.match.patternId = "DEPLOY_FAILURE"
    /\ report.match.rootCauseEvent.type = "deploy.restart"
\* C26: in every report the root cause and every evidence event are the
\* trigger or a cascade member of the returned cluster, so they lie between
\* windowStart and windowStart + 15 minutes; the evidence is not empty, holds
\* no event twice, is in non-decreasing timestamp order, and has at most 5
\* events for RETRY_STORM and at most 3 for CRASH_LOOP.
C26_EvidenceWithinCluster ==
    (pc = "correlated" /\ report.kind = "report") =>
        LET members == ScanOrder(report.cluster)
            evidence == report.match.evidence
            windowStart == report.cluster.windowStart
        IN  /\ InList(report.match.rootCauseEvent, members)
            /\ \A j \in 1..Len(evidence) :
                  /\ InList(evidence[j], members)
                  /\ windowStart <= evidence[j].timestamp
                  /\ evidence[j].timestamp <= windowStart + 15 * 60 * 1000
            /\ windowStart <= report.match.rootCauseEvent.timestamp
            /\ report.match.rootCauseEvent.timestamp <= windowStart + 15 * 60 * 1000
            /\ Len(evidence) >= 1
            /\ \A j \in 1..Len(evidence), k \in 1..Len(evidence) :
                  evidence[j] = evidence[k] => j = k
            /\ \A j \in 1..(Len(evidence) - 1) :
                  evidence[j].timestamp <= evidence[j + 1].timestamp
            /\ report.match.patternId = "RETRY_STORM" => Len(evidence) <= 5
            /\ report.match.patternId = "CRASH_LOOP" => Len(evidence) <= 3

\* C26's case: a retry storm of six cascade retries at two timestamps, five
\* of them in the evidence, with an input given out of time order.
C26_Witness ==
    /\ pc = "correlated"
    /\ report.kind = "report"
    /\ report.match.patternId = "RETRY_STORM"
    /\ report.match.metadata.retries = 6
    /\ Len(report.match.evidence) = 5
    /\ report.match.evidence[1].timestamp < report.match.evidence[5].timestamp
    /\ \E i \in Positions, j \in Positions : i < j /\ events[i].timestamp > events[j].timestamp

\* C26's case for the first rule: the trigger and, later than it, the retries
\* and restarts of its cascade, which holds an event that is no evidence.
C26_WitnessTimeout ==
    /\ pc = "correlated"
    /\ report.kind = "report"
    /\ report.match.patternId = "SERVERLESS_TIMEOUT_CASCADE"
    /\ Len(report.match.evidence) >= 3
    /\ report.match.evidence[1].timestamp < report.match.evidence[2].timestamp
    /\ Len(report.cluster.cascade) + 1 > Len(report.match.evidence)

\* C26's case for the crash loop: four restarts in the cascade, three shown.
C26_WitnessCrashLoop ==
    /\ pc = "correlated"
    /\ report.kind = "report"
    /\ report.match.patternId = "CRASH_LOOP"
    /\ report.match.metadata.restartCount = 4
    /\ Len(report.match.evidence) = 3
\* No two events of the input have the same timestamp.
DistinctTimestamps ==
    \A i \in Positions, j \in Positions :
        events[i].timestamp = events[j].timestamp => i = j

\* C27: for an input whose timestamps are pairwise distinct, correlateEvents
\* gives the same for every order of the input array: the same report, with
\* the same cluster, match and timeline, or no report both times.
C27_OrderDoesNotMatter ==
    (pc = "shuffled" /\ DistinctTimestamps) => again = report

\* C27's case: four events of four timestamps, given in time order and then
\* in another order that starts with the latest; both calls return the same
\* report.
C27_Witness ==
    /\ pc = "shuffled"
    /\ DistinctTimestamps
    /\ Len(events) = 4
    /\ \A i \in 1..3 : events[i].timestamp < events[i + 1].timestamp
    /\ shuffled[1] = events[4]
    /\ report.kind = "report"
    /\ again = report
    /\ Len(report.cluster.cascade) >= 2

\* C27's case with equal timestamps: two triggers of one timestamp, and the
\* order of the array decides which of them the report names.
C27_WitnessTie ==
    /\ pc = "shuffled"
    /\ ~DistinctTimestamps
    /\ report.kind = "report"
    /\ again.kind = "report"
    /\ again.cluster.triggerEvent # report.cluster.triggerEvent
    /\ again.cluster.triggerEvent.timestamp = report.cluster.triggerEvent.timestamp
    /\ again.match.patternId # report.match.patternId
\* The trigger of the cluster handed to matchPattern is a timeout by its
\* type, and no event of the cascade is a retry.
TimeoutWithoutRetry ==
    /\ pc = "matched"
    /\ PickedCluster.triggerEvent.type \in {"lambda.timeout", "Lambda.TIMEOUT"}
    /\ Len(CascadeRetries) = 0

\* The cluster handed to matchPattern holds a deploy event and an error
\* event, another one, that is not earlier.
DeployFollowedByError ==
    LET scan == ScanOrder(PickedCluster)
    IN  \E d \in 1..Len(scan), e \in 1..Len(scan) :
            /\ d # e
            /\ scan[d].type \in DeployTypes
            /\ scan[e].severity = "error"
            /\ scan[e].timestamp >= scan[d].timestamp

\* The cluster handed to matchPattern holds a deploy event that is an error.
DeployIsError ==
    LET scan == ScanOrder(PickedCluster)
    IN  \E d \in 1..Len(scan) : scan[d].type \in DeployTypes /\ scan[d].severity = "error"

\* C28, as claimed: on a cluster whose trigger is a timeout and whose cascade
\* has no retry, rule 1 returns no-match and the other rules are evaluated:
\* with at least 2 restarts in the cascade the result is CRASH_LOOP, and with
\* a deploy event followed by an error it is DEPLOY_FAILURE.
C28_DeclineGoesOn ==
    TimeoutWithoutRetry =>
        /\ RuleResults[1] = Null
        /\ Len(CascadeRestarts) >= 2 =>
              match.kind = "match" /\ match.patternId = "CRASH_LOOP"
        /\ DeployFollowedByError =>
              match.kind = "match" /\ match.patternId = "DEPLOY_FAILURE"

\* C28, amended: on a cluster whose trigger is a timeout and whose cascade
\* has no retry, rule 1 returns no-match and the other rules are evaluated in
\* their order: with a deploy event followed by an error, or itself an error,
\* the result is DEPLOY_FAILURE, with at least 2 restarts in the cascade or
\* without; with at least 2 restarts and no such deploy event it is
\* CRASH_LOOP; otherwise there is no match.
C28_DeclineGoesOnInOrder ==
    TimeoutWithoutRetry =>
        /\ RuleResults[1] = Null
        /\ RuleResults[2] = Null
        /\ match = IF DeployFollowedByError \/ DeployIsError THEN RuleResults[3]
                   ELSE IF Len(CascadeRestarts) >= 2 THEN RuleResults[4]
                   ELSE Null
        /\ (DeployFollowedByError \/ DeployIsError) =>
              match.kind = "match" /\ match.patternId = "DEPLOY_FAILURE"
        /\ (Len(CascadeRestarts) >= 2 /\ ~DeployFollowedByError /\ ~DeployIsError) =>
              match.kind = "match" /\ match.patternId = "CRASH_LOOP"

\* C28's case: a timeout with two restarts and no retry after it, and no
\* deploy event: a crash loop.
C28_Witness ==
    /\ TimeoutWithoutRetry
    /\ Len(CascadeRestarts) >= 2
    /\ \A j \in 1..Len(PickedCluster.cascade) : PickedCluster.cascade[j].type \notin DeployTypes
    /\ match.kind = "match"
    /\ match.patternId = "CRASH_LOOP"

\* C28's case: a timeout with no retry after it, a deploy event that is not
\* an error and a later error: a deploy failure.
C28_WitnessDeploy ==
    /\ TimeoutWithoutRetry
    /\ DeployFollowedByError
    /\ ~DeployIsError
    /\ Len(CascadeRestarts) = 0
    /\ match.kind = "match"
    /\ match.patternId = "DEPLOY_FAILURE"

\* C28's case against the claim: a timeout with two restarts and no retry
\* after it, and a failed deploy: a deploy failure, not a crash loop.
C28_WitnessBoth ==
    /\ TimeoutWithoutRetry
    /\ Len(CascadeRestarts) >= 2
    /\ match.kind = "match"
    /\ match.patternId = "DEPLOY_FAILURE"
    /\ RuleResults[4].kind = "match"
\* C29: in a DEPLOY_FAILURE match the deploy event is in the evidence if and
\* only if its severity is error; and a cluster whose trigger is an error
\* with a type containing "deploy", on which rules 1 and 2 decline, always
\* matches DEPLOY_FAILURE with the trigger as the root cause and in the
\* evidence, and, with an empty cascade, as the only evidence.
C29_DeployEventInEvidence ==
    pc = "matched" =>
        LET trigger == PickedCluster.triggerEvent
            rule3 == RuleResults[3]
        IN  /\ rule3.kind = "match" =>
                  /\ rule3.rootCauseEvent.type \in DeployTypes
                  /\ InList(rule3.rootCauseEvent, rule3.evidence)
                        <=> rule3.rootCauseEvent.severity = "error"
            /\ (/\ trigger.severity = "error"
                /\ trigger.type \in DeployTypes
                /\ RuleResults[1] = Null
                /\ RuleResults[2] = Null) =>
                  /\ match.kind = "match"
                  /\ match.patternId = "DEPLOY_FAILURE"
                  /\ match.rootCauseEvent = trigger
                  /\ match.evidence[1] = trigger
                  /\ Len(PickedCluster.cascade) = 0 => match.evidence = <<trigger>>

\* C29's case: a failed deploy, an error, alone in its cluster: the match
\* has it as root cause and as its only evidence.
C29_Witness ==
    /\ pc = "matched"
    /\ PickedCluster.triggerEvent.type \in DeployTypes
    /\ PickedCluster.triggerEvent.severity = "error"
    /\ Len(PickedCluster.cascade) = 0
    /\ match.kind = "match"
    /\ match.patternId = "DEPLOY_FAILURE"
    /\ match.evidence = <<PickedCluster.triggerEvent>>
    /\ match.rootCauseEvent = PickedCluster.triggerEvent

\* C29's case for a deploy event that is no error: it is the root cause and
\* not in the evidence, which holds the errors after it.
C29_WitnessNotError ==
    /\ pc = "matched"
    /\ match.kind = "match"
    /\ match.patternId = "DEPLOY_FAILURE"
    /\ match.rootCauseEvent.severity # "error"
    /\ ~InList(match.rootCauseEvent, match.evidence)
    /\ Len(match.evidence) >= 2

\* C29's case for a trigger that is a failed deploy with errors in its
\* cascade: the evidence holds the trigger and the later errors.
C29_WitnessWithCascade ==
    /\ pc = "matched"
    /\ PickedCluster.triggerEvent.type \in DeployTypes
    /\ PickedCluster.triggerEvent.severity = "error"
    /\ match.kind = "match"
    /\ match.patternId = "DEPLOY_FAILURE"
    /\ match.rootCauseEvent = PickedCluster.triggerEvent
    /\ Len(match.evidence) >= 2
    /\ Len(PickedCluster.cascade) > Len(match.evidence) - 1
\* Every promise of runInvestigation has settled.
AllSettled ==
    /\ DOMAIN adapters = 1..3
    /\ \A a \in 1..3 : adapters[a] # Pending

\* C30: runInvestigation starts the three fetches together; correlateEvents
\* is called once and no more, after every promise has settled, fulfilled or
\* rejected, and never while one is pending; the feed it is called with holds
\* the events of the fulfilled connectors in the order trigger, local,
\* datadog, whatever the order in which the promises settled; once all have
\* settled nothing but the merge and the call can follow, and the run has
\* ended exactly when the one call was made.
C30_OneCallAfterAllSettled ==
    /\ [](calls <= 1)
    /\ [](pc = "scan.awaiting" => DOMAIN adapters = 1..3)
    /\ [][pc = "scan.ready" /\ pc' # pc => \A a \in 1..3 : adapters'[a] = Pending]_vars
    /\ [][calls' # calls =>
              /\ calls = 0 /\ calls' = 1
              /\ AllSettled
              /\ flattened = ReturnedByOthers
              /\ report' = correlateEvents(flattened)]_vars
    /\ [](pc \in {"scan.merged", "scan.done", "scan.aborted"} => flattened = ReturnedByOthers)
    /\ [](calls = 1 <=> pc \in {"scan.done", "scan.aborted"})
    /\ [][(AllSettled /\ pc = "scan.awaiting") => pc' = "scan.merged"]_vars
    /\ [][pc = "scan.merged" => calls' = 1]_vars

\* C30's case: the datadog connector settled first and the trigger connector
\* last, both with events; the one call was made, and the feed has the
\* events of the trigger connector before those of the datadog connector.
C30_Witness ==
    /\ pc = "scan.done"
    /\ calls = 1
    /\ settled = <<3, 2, 1>>
    /\ adapters[1].status = "fulfilled" /\ Len(adapters[1].value) >= 1
    /\ adapters[3].status = "fulfilled" /\ Len(adapters[3].value) >= 1
    /\ flattened = adapters[1].value \o adapters[2].value \o adapters[3].value
    /\ flattened[1].source = "trigger"
    /\ flattened[Len(flattened)].source = "datadog"

\* C30's case with a promise still pending: two have settled, no call was
\* made and the feed is empty.
C30_WitnessPending ==
    /\ pc = "scan.awaiting"
    /\ Len(settled) = 2
    /\ \E a \in 1..3 : adapters[a] = Pending
    /\ \E a \in 1..3 : adapters[a].status = "fulfilled" /\ Len(adapters[a].value) >= 1
    /\ calls = 0
    /\ flattened = <<>>

====
